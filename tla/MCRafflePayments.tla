-------------------------- MODULE MCRafflePayments --------------------------
(* Small instances of RafflePayments for TLC. *)
EXTENDS RafflePayments, TLC

CONSTANTS client, prov, prov2, TicketValues, MaxNonce

\* Tickets of every round, of an index in the round or not, of the round's face
\* value or another; and for every round a ticket the client did not sign.
MCTickets ==
    {t \in [round : RoundKeys, localIndex : 0..1, faceValue : TicketValues,
            senderNonce : 1..MaxNonce, signer : {client, prov}] :
        t.signer = client \/ (t.localIndex = 0 /\ t.faceValue = 1)}
=============================================================================
