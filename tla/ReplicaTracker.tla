--------------------------- MODULE ReplicaTracker ---------------------------
(***************************************************************************)
(* Cache announcements and the replica tracker behind                      *)
(* DemandAndReplicaManager.  A provider signs an announcement with an      *)
(* expiry; the announcement may be delivered late, more than once or with  *)
(* another version than was signed.  A signature is the key and the        *)
(* payload it was made over, length-prefixed and hence unambiguous.        *)
(***************************************************************************)
EXTENDS WallClock, Sequences, FiniteSets

CONSTANTS
    Providers, CachedFiles, Versions,
    TTLs                \* lifetimes offered for an announcement

ASSUME ReplicaAssumption == TTLs \subseteq Int /\ Versions \subseteq Nat

VARIABLES
    network,     \* the signed announcements made so far, for ever deliverable
    replicas     \* the tracker's list

replicaVars == <<network, replicas>>

ReplicaInit == network = {} /\ replicas = <<>>

\* CreateCacheAnnouncement's checks hold of any provider and any manifest.
CacheAnnouncement(p, f, v, expiry) ==
    [ProviderID |-> p, FileID |-> f, Version |-> v, Expiry |-> expiry]

buildSigningPayload(a) == <<a.ProviderID, a.FileID, a.Expiry, a.Version>>

SignCacheAnnouncement(a, key) ==
    [Announcement |-> a, Signature |-> <<key, buildSigningPayload(a)>>]

VerifyCacheAnnouncement(s, key) ==
    s.Signature = <<key, buildSigningPayload(s.Announcement)>>

CreateSignedCacheAnnouncement(p, f, v, ttl) ==
    /\ network' = network \cup
          {SignCacheAnnouncement(CacheAnnouncement(p, f, v, clock + ttl), p)}
    /\ UNCHANGED <<clock, replicas>>

AddOrUpdateReplica(p, f, v, state) ==
    LET new == [ProviderID |-> p, FileID |-> f, Version |-> v, State |-> state]
        same == {i \in DOMAIN replicas : [replicas[i] EXCEPT !.State = state] = new}
    IN  IF same = {} THEN replicas' = Append(replicas, new)
        ELSE replicas' = [i \in DOMAIN replicas |-> IF i \in same THEN new ELSE replicas[i]]

\* Fault: the expiry is not checked.
IngestAnnouncement_Expired(s, key) ==
    LET a == s.Announcement
    IN  /\ VerifyCacheAnnouncement(s, key)
        /\ AddOrUpdateReplica(a.ProviderID, a.FileID, a.Version, "ACTIVE")
        /\ UNCHANGED <<clock, network>>

IngestAnnouncement(s, key) ==
    LET a == s.Announcement
    IN  /\ VerifyCacheAnnouncement(s, key)
        /\ clock <= a.Expiry
        /\ AddOrUpdateReplica(a.ProviderID, a.FileID, a.Version, "ACTIVE")
        /\ UNCHANGED <<clock, network>>

RemoveReplica(p, f, v) ==
    LET active == [ProviderID |-> p, FileID |-> f, Version |-> v, State |-> "ACTIVE"]
    IN  /\ \E i \in DOMAIN replicas : replicas[i] = active
        /\ replicas' = [i \in DOMAIN replicas |->
                           IF replicas[i] = active THEN [active EXCEPT !.State = "REMOVED"]
                           ELSE replicas[i]]
        /\ UNCHANGED <<clock, network>>

GetReplicaCount(f, v) ==
    Cardinality({i \in DOMAIN replicas :
        replicas[i].FileID = f /\ replicas[i].Version = v /\ replicas[i].State = "ACTIVE"})

ReplicaNext ==
    \/ \E p \in Providers, f \in CachedFiles, v \in Versions :
          RemoveReplica(p, f, v) \/ \E ttl \in TTLs : CreateSignedCacheAnnouncement(p, f, v, ttl)
    \/ \E s \in network, v \in Versions :
          IngestAnnouncement([s EXCEPT !.Announcement.Version = v], s.Announcement.ProviderID)

-----------------------------------------------------------------------------
(* Properties *)

ReplicaTypeOK ==
    /\ \A s \in network : s.Announcement.ProviderID \in Providers
    /\ \A i \in DOMAIN replicas :
          /\ replicas[i].ProviderID \in Providers /\ replicas[i].FileID \in CachedFiles
          /\ replicas[i].Version \in Versions /\ replicas[i].State \in {"ACTIVE", "REMOVED"}

Announced(p, f, v) ==
    {s \in network : s.Announcement = CacheAnnouncement(p, f, v, s.Announcement.Expiry)}

\* demand_bridge.go:76-90: a replica is listed, or comes back after its removal,
\* only while an announcement of it, by its provider, is in force: a late or altered
\* copy cannot revive it.  And the count of a version grows by such replicas only,
\* however often their announcements are delivered.
RevivedInForce ==
    [][\A f \in CachedFiles, v \in Versions :
          LET Listed(l) == {p \in Providers : \E i \in DOMAIN l :
                  l[i] = [ProviderID |-> p, FileID |-> f, Version |-> v, State |-> "ACTIVE"]}
              new == Listed(replicas') \ Listed(replicas)
          IN  /\ \A p \in new : \E s \in Announced(p, f, v) : clock <= s.Announcement.Expiry
              /\ GetReplicaCount(f, v)' <= GetReplicaCount(f, v) + Cardinality(new)]_replicaVars
=============================================================================
