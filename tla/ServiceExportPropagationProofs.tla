-------------------- MODULE ServiceExportPropagationProofs --------------------
(***************************************************************************)
(* No ServiceExport and no policy is forgotten, neither to be made nor to  *)
(* be withdrawn, for every set of Services, MCIs and bindings and every    *)
(* lag of the informers: the proof of the inductive invariant IInv of      *)
(* ServiceExportPropagation, and what follows from it.                     *)
(*                                                                         *)
(* The three properties are not inductive: what a reconcile will do        *)
(* depends on what it has read.  IInv adds                                 *)
(*   - how the incarnations of a Service get to the cache (HistoryOK);     *)
(*   - that nothing belongs to an incarnation before a reconcile with its  *)
(*     UID (UnusedOK);                                                     *)
(*   - that a reconcile of the live incarnation sees the true             *)
(*     ServiceExport and policy, and has done its part (OutputsKnown);     *)
(*   - that it took the right branch, unless something happened that has   *)
(*     put the Service back into the channel or the queue (BranchOK).      *)
(***************************************************************************)
EXTENDS ServiceExportPropagation, Channels, TLAPS

\* Informers and garbage collector are in time, and all MCIs are of this
\* provider: what the three properties need.
InTimeAssumption ==
  {"outputsCached", "garbageCollected", "recreationSeen"} \subseteq Assumes
OurMCIs == MCIServed \subseteq {TRUE}

Busy(s) == pc # "idle" /\ key = s

\* With MCIs of this provider alone: Needed, and the contrary of Unneeded
Wanted(s) == ReferTo(s) # {} \/ HasLoadBalancer(s)

\* The cache shows the live Service, and no event is on its way to the queue.
Quiet(s) == Live(s) /\ svcWatch[s] = <<>> /\ s \notin queue \cup svcEventChan

\* What is on its way to a cache ends with the live object.
Ends(watch, cached, obj) == IF watch = <<>> THEN cached = obj
                                            ELSE watch[Len(watch)] = obj

Past(s, e) == e # NotFound => e.uid <= incarnations[s]
Older(s, e) == e # NotFound => e.uid < incarnations[s]

\* A new incarnation shows up in the cache by one event, after the deletion of
\* the one before.
HistoryOK(s) ==
  /\ service[s] # NotFound => service[s].uid = incarnations[s]
  /\ Past(s, svcCache[s])
  /\ \A i \in 1 .. Len(svcWatch[s]) : Past(s, svcWatch[s][i])
  /\ Ends(svcWatch[s], svcCache[s], service[s])
  /\ Live(s) /\ svcWatch[s] # <<>> =>
       /\ Older(s, svcCache[s])
       /\ \A i \in 1 .. Len(svcWatch[s]) - 1 : Older(s, svcWatch[s][i])
       /\ IF Len(svcWatch[s]) = 1
          THEN svcCache[s] = NotFound
          ELSE svcWatch[s][Len(svcWatch[s]) - 1] = NotFound

BoundsOK(s) ==
  /\ export[s] # NotFound => export[s] <= incarnations[s]
  /\ policy[s] # NotFound => policy[s].owner <= incarnations[s]

\* Neither ServiceExport nor policy belongs to the last incarnation of s.
Unused(s) == /\ export[s] # incarnations[s]
             /\ policy[s] # NotFound => policy[s].owner # incarnations[s]

UnusedOK(s) ==
  Live(s) /\ (svcWatch[s] # <<>> \/ (Busy(s) /\ owner # incarnations[s])) =>
    Unused(s)

\* Who needs them has ServiceExport and policy, who does not has neither.
ProvidedOK(s) ==
  Quiet(s) /\ s \notin svcCreated /\ ~Busy(s) /\ Wanted(s) =>
    /\ export[s] = incarnations[s]
    /\ getBindingClusterResults(s) # {} =>
         policy[s] = [owner |-> incarnations[s],
                      clusters |-> getBindingClusterResults(s)]

WithdrawnOK(s) ==
  Quiet(s) /\ ~Busy(s) /\ ~Wanted(s) /\ rb[s] # NotFound => Unused(s)

OwnerOK(s) ==
  Busy(s) => /\ owner <= incarnations[s]
             /\ Live(s) /\ svcWatch[s] # <<>> => owner # incarnations[s]

\* Steps before the ServiceExport is written, and after
BeforeExport == {"listMCIs", "getMCS", "getExport", "createExport",
                 "getExportToDelete", "deleteExport"}
PolicySteps == {"getPolicy", "createPolicy", "updatePolicy"}

OutputsKnown(s) ==
  Busy(s) /\ Lives(s, owner) =>
    /\ pc \in BeforeExport =>
         exportWatch[s] = <<>> /\ export[s] \in {NotFound, owner}
    /\ pc \in {"listBindings"} \cup PolicySteps => export[s] = owner
    /\ pc \in {"getPolicyToDelete", "deletePolicy"} => export[s] = NotFound
    /\ policyWatch[s] = <<>>
    /\ policy[s] # NotFound => policy[s].owner = owner

BranchOK(s) ==
  Busy(s) /\ s \notin queue \cup svcEventChan =>
    /\ pc = "getMCS" => ReferTo(s) = {}
    /\ pc \in EnsureSteps => Wanted(s)
    /\ pc \in RemoveSteps => ~Wanted(s)
    /\ Quiet(s) /\ s \notin svcCreated /\ Wanted(s) => owner = incarnations[s]
    /\ pc \in PolicySteps /\ getBindingClusterResults(s) # {} =>
         clusters = getBindingClusterResults(s)

\* The types of TypeOK, apart by what the steps touch
SvcOK ==
  /\ service \in [Services -> Svc \cup {NotFound}]
  /\ svcWatch \in [Services -> Seq(Svc \cup {NotFound})]
  /\ svcCache \in [Services -> Svc \cup {NotFound}]
  /\ incarnations \in [Services -> 0 .. MaxUID]
  /\ \A s \in Services : HistoryOK(s)

RefOK ==
  /\ mci \in [MCIs -> MCI \cup {NotFound}]
  /\ mcs \in [Services -> {NotFound} \cup SUBSET ExposureTypes]
  /\ rb \in [Services -> Bindings \cup {NotFound}]

ExportOK ==
  /\ export \in [Services -> UIDs \cup {NotFound}]
  /\ exportWatch \in [Services -> Seq(UIDs \cup {NotFound})]
  /\ exportCache \in [Services -> UIDs \cup {NotFound}]
  /\ \A s \in Services : Ends(exportWatch[s], exportCache[s], export[s])

PolicyOK ==
  /\ policy \in [Services -> Policy \cup {NotFound}]
  /\ policyWatch \in [Services -> Seq(Policy \cup {NotFound})]
  /\ policyCache \in [Services -> Policy \cup {NotFound}]
  /\ \A s \in Services : Ends(policyWatch[s], policyCache[s], policy[s])

QueueOK == /\ svcCreated \subseteq Services
           /\ svcEventChan \subseteq Services
           /\ queue \subseteq Services

Steps == {"idle", "listMCIs", "getMCS"} \cup EnsureSteps \cup RemoveSteps

WorkOK ==
  /\ pc \in Steps
  /\ key \in Services \cup {NotFound}
  /\ owner \in UIDs \cup {NotFound}
  /\ clusters \subseteq Clusters
  /\ fresh \in BOOLEAN
  /\ pc # "idle" => key # NotFound /\ owner # NotFound

\* The copy of a policy that may be updated is one.
CopyOK == pc = "updatePolicy" /\ fresh => policy[key] # NotFound

CacheOK ==
  SvcOK /\ RefOK /\ ExportOK /\ PolicyOK /\ QueueOK /\ WorkOK /\ CopyOK

ServiceClaims(s) ==
  /\ BoundsOK(s) /\ UnusedOK(s) /\ ProvidedOK(s) /\ WithdrawnOK(s)
  /\ OwnerOK(s) /\ OutputsKnown(s) /\ BranchOK(s)
Claims == \A s \in Services : ServiceClaims(s)

IInv == CacheOK /\ Claims
-----------------------------------------------------------------------------
\* Events of an object and its cache, before and after a step
LEMMA Delivered ==
  ASSUME NEW S, NEW watch \in Seq(S), watch # <<>>, NEW cached, NEW obj,
         Ends(watch, cached, obj)
  PROVE  Ends(Tail(watch), Head(watch), obj)
  BY RestOfChannel DEF Ends

LEMMA Appended ==
  ASSUME NEW S, NEW watch \in Seq(S), NEW cached, NEW obj \in S
  PROVE  Ends(Append(watch, obj), cached, obj)
  BY OneMoreEvent DEF Ends

LEMMA TypeParts ==
  /\ CacheOK => TypeOK
  /\ CacheOK' <=> SvcOK' /\ RefOK' /\ ExportOK' /\ PolicyOK' /\ QueueOK'
                  /\ WorkOK' /\ CopyOK'
  BY DEF CacheOK, TypeOK, SvcOK, RefOK, ExportOK, PolicyOK, QueueOK, WorkOK, Steps

\* What a step does not touch stays right.
LEMMA Unchanged ==
  ASSUME CacheOK
  PROVE  /\ UNCHANGED <<service, svcWatch, svcCache, incarnations>> => SvcOK'
         /\ UNCHANGED refVars => RefOK'
         /\ UNCHANGED exportVars => ExportOK'
         /\ UNCHANGED policyVars => PolicyOK'
         /\ UNCHANGED <<svcCreated, svcEventChan, queue>> => QueueOK'
         /\ UNCHANGED workVars => WorkOK'
         /\ UNCHANGED <<pc, key, fresh, policyVars>> => CopyOK'
<1>1. ASSUME UNCHANGED <<service, svcWatch, svcCache, incarnations>>
      PROVE  SvcOK'
  BY <1>1 DEF CacheOK, SvcOK, HistoryOK, Past, Older, Live, Ends
<1>2. ASSUME UNCHANGED refVars PROVE RefOK'
  BY <1>2 DEF CacheOK, RefOK, refVars
<1>3. ASSUME UNCHANGED exportVars PROVE ExportOK'
  BY <1>3 DEF CacheOK, ExportOK, exportVars, Ends
<1>4. ASSUME UNCHANGED policyVars PROVE PolicyOK'
  BY <1>4 DEF CacheOK, PolicyOK, policyVars, Ends
<1>5. ASSUME UNCHANGED <<svcCreated, svcEventChan, queue>> PROVE QueueOK'
  BY <1>5 DEF CacheOK, QueueOK
<1>6. ASSUME UNCHANGED workVars PROVE WorkOK'
  BY <1>6 DEF CacheOK, WorkOK, workVars
<1>7. ASSUME UNCHANGED <<pc, key, fresh, policyVars>> PROVE CopyOK'
  BY <1>7 DEF CacheOK, CopyOK, policyVars
<1> QED BY <1>1, <1>2, <1>3, <1>4, <1>5, <1>6, <1>7

\* A Service is created or marked for deletion, or goes.
LEMMA ServiceWritten ==
  ASSUME SvcOK, NEW s \in Services, CreateService(s) \/ DeleteService(s)
  PROVE  /\ SvcOK'
         /\ svcWatch'[s] # <<>>
         /\ \A t \in Services \ {s} :
              /\ service'[t] = service[t] /\ svcWatch'[t] = svcWatch[t]
              /\ incarnations'[t] = incarnations[t]
         /\ incarnations'[s] \in {incarnations[s], incarnations[s] + 1}
         /\ incarnations[s] \in Nat
         /\ Live(s)' => incarnations'[s] = incarnations[s] + 1
         /\ \A uid \in Nat : uid <= incarnations[s] /\ Lives(s, uid)' => Lives(s, uid)
         /\ UNCHANGED <<svcCreated, refVars, exportVars, policyVars,
                        svcEventChan, queue, workVars>>
<1>a. MaxUID \in Nat /\ NotFound \notin Svc
  BY ConstantsAssumption
<1> USE <1>a
<1>1. /\ service[s] \in Svc \cup {NotFound}
      /\ svcWatch[s] \in Seq(Svc \cup {NotFound})
      /\ incarnations[s] \in 0 .. MaxUID /\ incarnations[s] \in Nat
      /\ HistoryOK(s)
  BY DEF SvcOK
<1>2. PICK obj \in Svc \cup {NotFound} :
        /\ ServiceBecomes(s, obj)
        /\ \/ /\ CreateService(s) /\ service[s] = NotFound
              /\ incarnations' = [incarnations EXCEPT ![s] = @ + 1]
              /\ incarnations[s] < MaxUID
              /\ obj = [uid |-> incarnations[s] + 1, deleting |-> FALSE]
           \/ obj = NotFound /\ UNCHANGED incarnations
           \/ /\ service[s] # NotFound /\ UNCHANGED incarnations
              /\ obj = [service[s] EXCEPT !.deleting = TRUE]
  <2>1. CASE CreateService(s)
    <3>1. [uid |-> incarnations[s] + 1, deleting |-> FALSE] \in Svc
      BY <1>1, <2>1 DEF CreateService, Svc, UIDs
    <3> QED BY <2>1, <3>1 DEF CreateService
  <2>2. CASE DeleteService(s)
    <3>1. service[s] \in Svc => [service[s] EXCEPT !.deleting = TRUE] \in Svc
      BY DEF Svc
    <3> QED BY <1>1, <2>2, <3>1 DEF DeleteService
  <2> QED BY <2>1, <2>2
<1>3. /\ service' = [service EXCEPT ![s] = obj]
      /\ svcWatch' = [svcWatch EXCEPT ![s] = Append(svcWatch[s], obj)]
      /\ svcCache' = svcCache
      /\ UNCHANGED <<svcCreated, refVars, exportVars, policyVars, svcEventChan,
                     queue, workVars>>
  BY <1>2 DEF ServiceBecomes
<1>4. /\ service'[s] = obj /\ svcWatch'[s] = Append(svcWatch[s], obj)
      /\ \A t \in Services \ {s} :
           service'[t] = service[t] /\ svcWatch'[t] = svcWatch[t]
  BY <1>3 DEF SvcOK
<1>5. /\ \A t \in Services \ {s} : incarnations'[t] = incarnations[t]
      /\ incarnations'[s] \in {incarnations[s], incarnations[s] + 1}
      /\ incarnations' \in [Services -> 0 .. MaxUID]
      /\ service[s] = NotFound /\ obj # NotFound =>
           incarnations'[s] = incarnations[s] + 1
  <2>1. \/ /\ incarnations' = [incarnations EXCEPT ![s] = incarnations[s] + 1]
           /\ incarnations[s] < MaxUID
        \/ incarnations' = incarnations /\ (service[s] # NotFound \/ obj = NotFound)
    BY <1>2
  <2>2. incarnations[s] < MaxUID => incarnations[s] + 1 \in 0 .. MaxUID
    BY <1>1
  <2> QED BY <2>1, <2>2 DEF SvcOK
<1>6. /\ obj # NotFound => obj.uid = incarnations'[s] /\ obj.uid \in Nat
      /\ obj # NotFound /\ ~obj.deleting =>
           /\ incarnations'[s] = incarnations[s] + 1
           /\ service[s] = NotFound
      /\ obj # NotFound /\ service[s] # NotFound => obj.uid = service[s].uid
  BY <1>1, <1>2, <1>5 DEF HistoryOK, Svc, SvcOK
<1>7. Live(s)' => incarnations'[s] = incarnations[s] + 1 /\ service[s] = NotFound
  BY <1>4, <1>6 DEF Live
<1>8. ASSUME NEW uid \in Nat, uid <= incarnations[s], Lives(s, uid)'
      PROVE  Lives(s, uid)
  <2>1. obj # NotFound /\ obj.uid = uid
    BY <1>4, <1>8 DEF Lives
  <2>2. service[s] # NotFound
    BY <1>1, <1>5, <1>6, <1>8, <2>1
  <2> QED BY <1>6, <2>1, <2>2 DEF Lives
<1>9. /\ svcWatch'[s] \in Seq(Svc \cup {NotFound}) /\ svcWatch'[s] # <<>>
      /\ Len(svcWatch[s]) \in Nat
      /\ Len(svcWatch'[s]) = Len(svcWatch[s]) + 1
      /\ svcWatch'[s][Len(svcWatch[s]) + 1] = obj
      /\ \A i \in 1 .. Len(svcWatch[s]) : svcWatch'[s][i] = svcWatch[s][i]
      /\ svcWatch[s] = <<>> => Len(svcWatch[s]) = 0
      /\ svcWatch[s] # <<>> => Len(svcWatch[s]) \in 1 .. Len(svcWatch[s])
  BY <1>1, <1>4, OneMoreEvent
<1>10. \A e : e \in Svc /\ e # NotFound => e.uid \in Nat
  BY DEF Svc, UIDs
<1>11. /\ svcCache[s] \in Svc \cup {NotFound}
       /\ \A i \in 1 .. Len(svcWatch[s]) : svcWatch[s][i] \in Svc \cup {NotFound}
  BY <1>1, LenProperties DEF SvcOK
<1>12. HistoryOK(s)'
  <2>1. obj # NotFound => obj.uid = incarnations'[s]
    BY <1>6
  <2>2. Past(s, svcCache[s])'
    BY <1>1, <1>3, <1>5, <1>10, <1>11 DEF HistoryOK, Past
  <2>3. ASSUME NEW i \in 1 .. Len(svcWatch'[s]) PROVE Past(s, svcWatch[s][i])'
    <3>1. CASE i = Len(svcWatch[s]) + 1
      BY <1>1, <1>5, <1>6, <1>9, <3>1 DEF Past
    <3>2. CASE i # Len(svcWatch[s]) + 1
      <4>1. i \in 1 .. Len(svcWatch[s])
        BY <1>9, <3>2
      <4>2. svcWatch'[s][i] = svcWatch[s][i] /\ Past(s, svcWatch[s][i])
        BY <1>1, <1>9, <4>1 DEF HistoryOK
      <4>3. svcWatch[s][i] # NotFound => svcWatch[s][i].uid \in Nat
        BY <1>10, <1>11, <4>1
      <4>4. incarnations[s] \in Nat /\ incarnations'[s] \in Nat
            /\ incarnations[s] <= incarnations'[s]
        BY <1>1, <1>5
      <4> QED BY <4>2, <4>3, <4>4 DEF Past
    <3> QED BY <3>1, <3>2
  <2>4. Ends(svcWatch'[s], svcCache'[s], service'[s])
    BY <1>4, <1>9 DEF Ends
  <2>5. ASSUME Live(s)'
        PROVE  /\ Older(s, svcCache[s])'
               /\ \A i \in 1 .. Len(svcWatch'[s]) - 1 : Older(s, svcWatch[s][i])'
               /\ IF Len(svcWatch'[s]) = 1
                  THEN svcCache'[s] = NotFound
                  ELSE svcWatch'[s][Len(svcWatch'[s]) - 1] = NotFound
    <3>1. incarnations'[s] = incarnations[s] + 1 /\ service[s] = NotFound
      BY <1>7, <2>5
    <3>2. Older(s, svcCache[s])'
      BY <1>1, <1>3, <1>10, <1>11, <3>1 DEF HistoryOK, Past, Older
    <3>3. ASSUME NEW i \in 1 .. Len(svcWatch'[s]) - 1
          PROVE  Older(s, svcWatch[s][i])'
      <4>1. i \in 1 .. Len(svcWatch[s])
        BY <1>9
      <4>2. svcWatch'[s][i] = svcWatch[s][i] /\ Past(s, svcWatch[s][i])
        BY <1>1, <1>9, <4>1 DEF HistoryOK
      <4>3. svcWatch[s][i] # NotFound => svcWatch[s][i].uid \in Nat
        BY <1>10, <1>11, <4>1
      <4>4. incarnations[s] \in Nat
        BY <1>1
      <4> QED BY <3>1, <4>2, <4>3, <4>4 DEF Past, Older
    <3>4. CASE svcWatch[s] = <<>>
      BY <1>1, <1>3, <1>9, <3>1, <3>2, <3>3, <3>4 DEF HistoryOK, Ends
    <3>5. CASE svcWatch[s] # <<>>
      <4>1. Len(svcWatch'[s]) - 1 = Len(svcWatch[s]) /\ Len(svcWatch'[s]) # 1
        BY <1>9, <3>5
      <4> QED BY <1>1, <1>9, <3>1, <3>2, <3>3, <3>5, <4>1 DEF HistoryOK, Ends
    <3> QED BY <3>4, <3>5
  <2> QED BY <1>4, <2>1, <2>2, <2>3, <2>4, <2>5 DEF HistoryOK
<1>13. ASSUME NEW t \in Services \ {s} PROVE HistoryOK(t)'
  BY <1>3, <1>4, <1>5 DEF HistoryOK, SvcOK, Past, Older, Live, Ends
<1>14. SvcOK'
  <2>1. /\ service' \in [Services -> Svc \cup {NotFound}]
        /\ svcWatch' \in [Services -> Seq(Svc \cup {NotFound})]
    BY <1>3, <1>4, <1>9 DEF SvcOK
  <2> QED BY <1>3, <1>5, <1>12, <1>13, <2>1 DEF SvcOK
<1> QED BY <1>1, <1>3, <1>4, <1>5, <1>7, <1>8, <1>9, <1>14

\* The first event of a Service is delivered, or the list replaces all of them.
LEMMA ServiceObserved ==
  ASSUME SvcOK, NEW s \in Services, DeliverService(s) \/ RelistService(s)
  PROVE  /\ SvcOK'
         /\ svcWatch[s] # <<>>
         /\ \A t \in Services \ {s} : svcWatch'[t] = svcWatch[t]
         /\ svcCreated \subseteq svcCreated'
         /\ svcCreated' \subseteq svcCreated \cup {s}
         /\ InTimeAssumption /\ Live(s) /\ svcWatch'[s] = <<>> =>
              s \in svcCreated'
         /\ UNCHANGED <<service, incarnations, refVars, exportVars, policyVars,
                        svcEventChan, queue, workVars>>
<1> DEFINE w == svcWatch[s]
<1>1. /\ service[s] \in Svc \cup {NotFound}
      /\ w \in Seq(Svc \cup {NotFound})
      /\ incarnations[s] \in Nat
      /\ HistoryOK(s)
  BY ConstantsAssumption DEF SvcOK
<1>2. /\ svcCreated \subseteq svcCreated'
      /\ svcCreated' \subseteq svcCreated \cup {s}
      /\ UNCHANGED <<service, incarnations, refVars, exportVars, policyVars,
                     svcEventChan, queue, workVars>>
  BY DEF DeliverService, RelistService, ObserveService
<1>3. CASE DeliverService(s)
  <2>1. /\ w # <<>>
        /\ svcCache' = [svcCache EXCEPT ![s] = Head(w)]
        /\ svcWatch' = [svcWatch EXCEPT ![s] = Tail(w)]
        /\ svcCreated' = IF svcCache[s] = NotFound /\ Head(w) # NotFound
                         THEN svcCreated \cup {s} ELSE svcCreated
    BY <1>3 DEF DeliverService, ObserveService
  <2>2. /\ svcCache'[s] = Head(w) /\ svcWatch'[s] = Tail(w)
        /\ \A t \in Services \ {s} :
             svcWatch'[t] = svcWatch[t] /\ svcCache'[t] = svcCache[t]
    BY <2>1 DEF SvcOK
  <2>3. /\ Head(w) \in Svc \cup {NotFound} /\ Head(w) = w[1]
        /\ Tail(w) \in Seq(Svc \cup {NotFound})
        /\ Len(w) \in Nat \ {0}
        /\ Len(Tail(w)) = Len(w) - 1
        /\ \A i \in 1 .. Len(Tail(w)) : i + 1 \in 1 .. Len(w) /\ Tail(w)[i] = w[i + 1]
        /\ Len(Tail(w)) \in Nat
        /\ Tail(w) # <<>> => Len(Tail(w)) # 0
        /\ Tail(w) = <<>> => Len(w) = 1
    <3>1. Tail(w) # <<>> => Len(Tail(w)) # 0
      BY <1>1, <2>1, RestOfChannel, EmptySeq
    <3>2. ASSUME Tail(w) = <<>> PROVE Len(w) = 1
      <4>1. Len(Tail(w)) = 0
        BY <3>2, EmptyLength, Zenon
      <4>2. Len(w) - 1 = 0
        BY <1>1, <2>1, <4>1, RestOfChannel, Zenon
      <4>3. Len(w) \in Nat
        BY <1>1, LenProperties
      <4> QED BY <4>2, <4>3
    <3> QED BY <1>1, <2>1, <3>1, <3>2, RestOfChannel, LenProperties
  <2>4. HistoryOK(s)'
    <3>1. Past(s, svcCache[s])'
      BY <1>1, <1>2, <2>2, <2>3 DEF HistoryOK, Past
    <3>2. ASSUME NEW i \in 1 .. Len(svcWatch'[s]) PROVE Past(s, svcWatch[s][i])'
      BY <1>1, <1>2, <2>2, <2>3, <3>2 DEF HistoryOK, Past
    <3>3. Ends(svcWatch'[s], svcCache'[s], service'[s])
      BY <1>1, <1>2, <2>1, <2>2, Delivered DEF HistoryOK
    <3>4. ASSUME Live(s), Tail(w) # <<>>
          PROVE  /\ Older(s, Head(w))
                 /\ \A i \in 1 .. Len(Tail(w)) - 1 : Older(s, Tail(w)[i])
                 /\ IF Len(Tail(w)) = 1 THEN Head(w) = NotFound
                    ELSE Tail(w)[Len(Tail(w)) - 1] = NotFound
      <4>1. /\ \A i \in 1 .. Len(w) - 1 : Older(s, w[i])
            /\ Len(w) # 1 => w[Len(w) - 1] = NotFound
        BY <1>1, <2>1, <3>4 DEF HistoryOK
      <4> DEFINE k == Len(w)
      <4>2. k \in Nat \ {0} /\ Len(Tail(w)) = k - 1 /\ k - 1 # 0
        BY <2>3, <3>4
      <4> HIDE DEF k
      <4>3. /\ 1 \in 1 .. k - 1
            /\ \A i \in 1 .. k - 1 - 1 : i \in 1 .. k - 1 /\ i + 1 \in 1 .. k - 1
            /\ k - 1 = 1 => k = 2
            /\ k - 1 # 1 => k - 1 - 1 \in 1 .. k - 1 /\ k - 1 - 1 + 1 = k - 1
        BY <4>2
      <4>4. Older(s, Head(w))
        BY <2>3, <4>1, <4>3 DEF k
      <4>5. ASSUME NEW i \in 1 .. Len(Tail(w)) - 1 PROVE Older(s, Tail(w)[i])
        BY <2>3, <4>1, <4>2, <4>3 DEF k
      <4>6. CASE k - 1 = 1
        BY <2>3, <4>1, <4>2, <4>3, <4>4, <4>5, <4>6 DEF k
      <4>7. CASE k - 1 # 1
        <5>1. Tail(w)[k - 1 - 1] = w[k - 1]
          BY <2>3, <4>2, <4>3, <4>7
        <5>2. w[k - 1] = NotFound
          BY <4>1, <4>2 DEF k
        <5> QED BY <4>2, <4>4, <4>5, <4>7, <5>1, <5>2
      <4> QED BY <4>6, <4>7
    <3> QED
      BY <1>1, <1>2, <2>2, <3>1, <3>2, <3>3, <3>4
      DEF HistoryOK, Live, Older
  <2>5. ASSUME NEW t \in Services \ {s} PROVE HistoryOK(t)'
    BY <1>2, <2>2 DEF HistoryOK, SvcOK, Past, Older, Live, Ends
  <2>6. SvcOK'
    BY <1>2, <2>1, <2>3, <2>4, <2>5 DEF SvcOK
  <2>7. ASSUME Live(s), Tail(w) = <<>> PROVE s \in svcCreated'
    <3>1. svcCache[s] = NotFound /\ w[1] = service[s]
      BY <1>1, <2>1, <2>3, <2>7 DEF HistoryOK, Ends
    <3> QED BY <2>1, <2>3, <2>7, <3>1 DEF Live
  <2> QED BY <1>2, <2>1, <2>2, <2>6, <2>7
<1>4. CASE RelistService(s)
  <2>1. /\ Len(w) > 1
        /\ svcCache' = [svcCache EXCEPT ![s] = service[s]]
        /\ svcWatch' = [svcWatch EXCEPT ![s] = <<>>]
        /\ svcCreated' = IF svcCache[s] = NotFound /\ service[s] # NotFound
                         THEN svcCreated \cup {s} ELSE svcCreated
        /\ InTimeAssumption => ~Recreated(s)
    BY <1>4 DEF RelistService, ObserveService, InTimeAssumption
  <2>2. /\ svcCache'[s] = service[s] /\ svcWatch'[s] = <<>>
        /\ \A t \in Services \ {s} :
             svcWatch'[t] = svcWatch[t] /\ svcCache'[t] = svcCache[t]
    BY <2>1 DEF SvcOK
  <2>3. w # <<>>
    BY <2>1, EmptyLength
  <2>4. \A e \in Svc : e.uid \in Nat
    BY ConstantsAssumption DEF Svc, UIDs
  <2>5. HistoryOK(s)'
    <3>1. service[s] # NotFound => service[s].uid = incarnations[s]
      BY <1>1 DEF HistoryOK
    <3>2. Past(s, svcCache[s])'
      BY <1>1, <1>2, <2>2, <3>1 DEF Past
    <3> QED BY <1>2, <2>2, <3>1, <3>2, EmptyLength DEF HistoryOK, Ends
  <2>6. ASSUME NEW t \in Services \ {s} PROVE HistoryOK(t)'
    BY <1>2, <2>2 DEF HistoryOK, SvcOK, Past, Older, Live, Ends
  <2>7. SvcOK'
    BY <1>2, <2>1, <2>5, <2>6, EmptySeq DEF SvcOK
  <2>8. ASSUME InTimeAssumption, Live(s) PROVE s \in svcCreated'
    <3>1. svcCache[s] # NotFound => svcCache[s].uid < incarnations[s]
      BY <1>1, <2>3, <2>8 DEF HistoryOK, Older
    <3>2. service[s] # NotFound /\ service[s].uid = incarnations[s]
      BY <1>1, <2>8 DEF HistoryOK, Live
    <3>3. svcCache[s] \in Svc \cup {NotFound}
      BY DEF SvcOK
    <3>4. svcCache[s] = NotFound
      BY <1>1, <2>1, <2>4, <2>8, <3>1, <3>2, <3>3 DEF Recreated
    <3> QED BY <2>1, <3>2, <3>4
  <2> QED BY <1>2, <2>2, <2>3, <2>7, <2>8
<1> QED BY <1>3, <1>4

\* Writes of a ServiceExport, and their delivery
LEMMA ExportWritten ==
  ASSUME ExportOK, NEW s \in Services, NEW obj \in UIDs \cup {NotFound},
         Commit(s, obj)
  PROVE  /\ ExportOK'
         /\ export'[s] = obj
         /\ \A t \in Services \ {s} :
              export'[t] = export[t] /\ exportWatch'[t] = exportWatch[t]
<1>1. exportWatch[s] \in Seq(UIDs \cup {NotFound})
  BY DEF ExportOK
<1>2. /\ export' = [export EXCEPT ![s] = obj]
      /\ exportWatch' = [exportWatch EXCEPT ![s] = Append(exportWatch[s], obj)]
      /\ exportCache' = exportCache
  BY DEF Commit
<1>3. /\ Append(exportWatch[s], obj) \in Seq(UIDs \cup {NotFound})
      /\ Ends(Append(exportWatch[s], obj), exportCache[s], obj)
  BY <1>1, OneMoreEvent, Appended
<1>4. ASSUME NEW t \in Services
      PROVE  Ends(exportWatch[t], exportCache[t], export[t])'
  BY <1>2, <1>3 DEF ExportOK, Ends
<1> QED BY <1>2, <1>3, <1>4 DEF ExportOK

LEMMA ExportDelivered ==
  ASSUME ExportOK, NEW s \in Services, DeliverExport(s)
  PROVE  /\ ExportOK' /\ export' = export /\ exportWatch[s] # <<>>
         /\ \A t \in Services \ {s} : exportWatch'[t] = exportWatch[t]
         /\ UNCHANGED <<svcVars, refVars, policyVars, svcEventChan, queue,
                        workVars>>
<1>1. /\ exportWatch[s] \in Seq(UIDs \cup {NotFound})
      /\ Ends(exportWatch[s], exportCache[s], export[s])
  BY DEF ExportOK
<1>2. /\ exportWatch[s] # <<>> /\ export' = export
      /\ exportWatch' = [exportWatch EXCEPT ![s] = Tail(exportWatch[s])]
      /\ exportCache' = [exportCache EXCEPT ![s] = Head(exportWatch[s])]
      /\ UNCHANGED <<svcVars, refVars, policyVars, svcEventChan, queue,
                     workVars>>
  BY DEF DeliverExport
<1>3. /\ Tail(exportWatch[s]) \in Seq(UIDs \cup {NotFound})
      /\ Head(exportWatch[s]) \in UIDs \cup {NotFound}
      /\ Ends(Tail(exportWatch[s]), Head(exportWatch[s]), export[s])
  BY <1>1, <1>2, RestOfChannel, Delivered
<1>4. ASSUME NEW t \in Services
      PROVE  Ends(exportWatch[t], exportCache[t], export[t])'
  BY <1>2, <1>3 DEF ExportOK, Ends
<1> QED BY <1>2, <1>3, <1>4 DEF ExportOK

\* Writes of a policy, and their delivery
LEMMA PolicyWritten ==
  ASSUME PolicyOK, NEW s \in Services, NEW obj \in Policy \cup {NotFound},
         CommitPolicy(s, obj)
  PROVE  /\ PolicyOK'
         /\ policy'[s] = obj
         /\ \A t \in Services \ {s} :
              policy'[t] = policy[t] /\ policyWatch'[t] = policyWatch[t]
<1>1. policyWatch[s] \in Seq(Policy \cup {NotFound})
  BY DEF PolicyOK
<1>2. /\ policy' = [policy EXCEPT ![s] = obj]
      /\ policyWatch' = [policyWatch EXCEPT ![s] = Append(policyWatch[s], obj)]
      /\ policyCache' = policyCache
  BY DEF CommitPolicy
<1>3. /\ Append(policyWatch[s], obj) \in Seq(Policy \cup {NotFound})
      /\ Ends(Append(policyWatch[s], obj), policyCache[s], obj)
  BY <1>1, OneMoreEvent, Appended
<1>4. ASSUME NEW t \in Services
      PROVE  Ends(policyWatch[t], policyCache[t], policy[t])'
  BY <1>2, <1>3 DEF PolicyOK, Ends
<1> QED BY <1>2, <1>3, <1>4 DEF PolicyOK

LEMMA PolicyDelivered ==
  ASSUME PolicyOK, NEW s \in Services, DeliverPolicy(s)
  PROVE  /\ PolicyOK' /\ policy' = policy /\ policyWatch[s] # <<>>
         /\ \A t \in Services \ {s} : policyWatch'[t] = policyWatch[t]
         /\ UNCHANGED <<svcVars, refVars, exportVars, svcEventChan, queue,
                        workVars>>
<1>1. /\ policyWatch[s] \in Seq(Policy \cup {NotFound})
      /\ Ends(policyWatch[s], policyCache[s], policy[s])
  BY DEF PolicyOK
<1>2. /\ policyWatch[s] # <<>> /\ policy' = policy
      /\ policyWatch' = [policyWatch EXCEPT ![s] = Tail(policyWatch[s])]
      /\ policyCache' = [policyCache EXCEPT ![s] = Head(policyWatch[s])]
      /\ UNCHANGED <<svcVars, refVars, exportVars, svcEventChan, queue,
                     workVars>>
  BY DEF DeliverPolicy
<1>3. /\ Tail(policyWatch[s]) \in Seq(Policy \cup {NotFound})
      /\ Head(policyWatch[s]) \in Policy \cup {NotFound}
      /\ Ends(Tail(policyWatch[s]), Head(policyWatch[s]), policy[s])
  BY <1>1, <1>2, RestOfChannel, Delivered
<1>4. ASSUME NEW t \in Services
      PROVE  Ends(policyWatch[t], policyCache[t], policy[t])'
  BY <1>2, <1>3 DEF PolicyOK, Ends
<1> QED BY <1>2, <1>3, <1>4 DEF PolicyOK
-----------------------------------------------------------------------------
\* The worker ends a reconcile, or goes on with it.
LEMMA Returned ==
  ASSUME CacheOK, Return
  PROVE  WorkOK' /\ CopyOK'
  BY DEF Return, WorkOK, CopyOK, Steps

LEMMA WentOn ==
  ASSUME CacheOK, pc # "idle", NEW step \in Steps, Goto(step),
         clusters' \subseteq Clusters, fresh' \in BOOLEAN
  PROVE  WorkOK' /\ queue' = queue /\ key' = key /\ owner' = owner /\ pc' = step
  BY DEF Goto, WorkOK, CacheOK

\* The Service at hand
LEMMA AtWork ==
  ASSUME CacheOK, pc # "idle"
  PROVE  key \in Services /\ owner \in UIDs /\ clusters \subseteq Clusters
         /\ fresh \in BOOLEAN
  BY DEF CacheOK, WorkOK

LEMMA QueueReturned ==
  ASSUME CacheOK, pc # "idle", UNCHANGED <<svcCreated, svcEventChan>>,
         queue' = queue \/ queue' = queue \cup {key}
  PROVE  QueueOK'
  BY AtWork DEF CacheOK, QueueOK

\* The clusters of a binding
LEMMA ResultsAreClusters ==
  ASSUME CacheOK, NEW s \in Services
  PROVE  getBindingClusterResults(s) \subseteq Clusters
  BY ConstantsAssumption DEF CacheOK, RefOK, RBSpec, getBindingClusterResults,
     getClusterResults

LEMMA ImpactedAreServices ==
  ASSUME NEW old \in MCI \cup {NotFound}, NEW new \in MCI \cup {NotFound}
  PROVE  Impacted(old, new) \subseteq Services
  BY DEF Impacted, Refs, MCI
-----------------------------------------------------------------------------
\* Objects, caches, channels and queue keep their types, and an informer that
\* has delivered everything shows the live object: these hold for any informers
\* and garbage collector.
LEMMA CacheInit == Init => CacheOK
<1> SUFFICES ASSUME Init PROVE CacheOK
  OBVIOUS
<1>1. \A s \in Services : incarnations[s] = 0 /\ 0 \in 0 .. MaxUID
  <2>1. MaxUID \in Nat
    BY ConstantsAssumption, Zenon
  <2>2. 0 \in 0 .. MaxUID
    BY <2>1
  <2>3. incarnations = [s \in Services |-> 0]
    BY DEF Init
  <2> QED BY <2>2, <2>3, Zenon
<1>2. SvcOK
  BY <1>1, EmptySeq, EmptyLength
  DEF Init, Nothing, NoEvents, SvcOK, HistoryOK, Past, Older, Live, Ends
<1>3. RefOK
  BY DEF Init, Nothing, RefOK
<1>4. ExportOK /\ PolicyOK
  BY EmptySeq DEF Init, Nothing, NoEvents, ExportOK, PolicyOK, Ends
<1>5. QueueOK /\ WorkOK /\ CopyOK
  BY DEF Init, QueueOK, WorkOK, CopyOK, Steps
<1> QED BY <1>2, <1>3, <1>4, <1>5 DEF CacheOK

LEMMA CacheUserStep == CacheOK /\ UserStep => CacheOK'
<1> SUFFICES ASSUME CacheOK, UserStep PROVE CacheOK'
  OBVIOUS
<1>1. ASSUME NEW s \in Services, CreateService(s) \/ DeleteService(s)
      PROVE  CacheOK'
  <2>1. SvcOK' /\ UNCHANGED <<svcCreated, refVars, exportVars, policyVars,
                              svcEventChan, queue, workVars>>
    BY <1>1, ServiceWritten DEF CacheOK
  <2> QED BY <2>1, Unchanged, TypeParts DEF workVars
<1>2. ASSUME NEW s \in Services, MCSEvent(s) PROVE CacheOK'
  <2>1. UNCHANGED <<svcVars, mci, rb, exportVars, policyVars, queue, workVars>>
    BY <1>2 DEF MCSEvent
  <2>2. PICK new \in {NotFound} \cup SUBSET ExposureTypes :
          mcs' = [mcs EXCEPT ![s] = new]
    BY <1>2 DEF MCSEvent
  <2>3. RefOK'
    BY <2>1, <2>2 DEF CacheOK, RefOK
  <2>4. svcEventChan' = svcEventChan \cup {s}
    BY <1>2 DEF MCSEvent
  <2>5. QueueOK'
    BY <2>1, <2>4 DEF CacheOK, QueueOK, svcVars
  <2> QED BY <2>1, <2>3, <2>5, Unchanged, TypeParts DEF svcVars, workVars
<1>3. ASSUME NEW s \in Services, ResourceBindingEvent(s) PROVE CacheOK'
  <2>1. UNCHANGED <<svcVars, mci, mcs, exportVars, policyVars, queue, workVars>>
    BY <1>3 DEF ResourceBindingEvent
  <2>2. RefOK' /\ QueueOK'
    BY <1>3, <2>1 DEF ResourceBindingEvent, CacheOK, RefOK, QueueOK, svcVars
  <2> QED BY <2>1, <2>2, Unchanged, TypeParts DEF svcVars, workVars
<1>4. ASSUME NEW i \in MCIs, MCIEvent(i) PROVE CacheOK'
  <2>1. UNCHANGED <<svcVars, mcs, rb, exportVars, policyVars, queue, workVars>>
    BY <1>4 DEF MCIEvent
  <2>2. PICK new \in MCI \cup {NotFound} :
          /\ mci' = [mci EXCEPT ![i] = new]
          /\ svcEventChan' = svcEventChan \cup Impacted(mci[i], new)
    BY <1>4 DEF MCIEvent
  <2>3. RefOK'
    BY <2>1, <2>2 DEF CacheOK, RefOK
  <2>4. mci[i] \in MCI \cup {NotFound}
    BY DEF CacheOK, RefOK
  <2>5. QueueOK'
    BY <2>1, <2>2, <2>4, ImpactedAreServices DEF CacheOK, QueueOK, svcVars
  <2> QED BY <2>1, <2>3, <2>5, Unchanged, TypeParts DEF svcVars, workVars
<1> QED BY <1>1, <1>2, <1>3, <1>4 DEF UserStep

LEMMA CacheHandlerStep ==
  ASSUME CacheOK, NEW s \in Services, HandlerStep(s) \/ RelistService(s)
  PROVE  CacheOK'
<1>1. CASE DeliverService(s) \/ RelistService(s)
  <2>1. SvcOK' /\ svcCreated' \subseteq svcCreated \cup {s}
        /\ UNCHANGED <<refVars, exportVars, policyVars, svcEventChan, queue,
                       workVars>>
    BY <1>1, ServiceObserved DEF CacheOK
  <2>2. QueueOK'
    BY <2>1 DEF CacheOK, QueueOK
  <2> QED BY <2>1, <2>2, Unchanged, TypeParts DEF workVars
<1>2. CASE DeliverExport(s)
  <2>1. ExportOK' /\ UNCHANGED <<svcVars, refVars, policyVars, svcEventChan,
                                 queue, workVars>>
    BY <1>2, ExportDelivered DEF CacheOK
  <2> QED BY <2>1, Unchanged, TypeParts DEF workVars, svcVars
<1>3. CASE DeliverPolicy(s)
  <2>1. PolicyOK' /\ policy' = policy
        /\ UNCHANGED <<svcVars, refVars, exportVars, svcEventChan, queue,
                       workVars>>
    BY <1>3, PolicyDelivered DEF CacheOK
  <2>2. CopyOK'
    BY <2>1 DEF CacheOK, CopyOK, workVars
  <2> QED BY <2>1, <2>2, Unchanged, TypeParts DEF workVars, svcVars
<1>4. CASE ServiceCreate(s) \/ ServiceGeneric(s)
  <2>1. QueueOK' /\ UNCHANGED <<service, svcWatch, svcCache, incarnations,
                                refVars, exportVars, policyVars, workVars>>
    BY <1>4 DEF ServiceCreate, ServiceGeneric, CacheOK, QueueOK, svcVars
  <2> QED BY <2>1, Unchanged, TypeParts DEF workVars
<1>5. CASE CollectExport(s)
  <2>1. Commit(s, NotFound) /\ UNCHANGED <<svcVars, refVars, policyVars,
                                           svcEventChan, queue, workVars>>
    BY <1>5 DEF CollectExport
  <2>2. ExportOK'
    BY <2>1, ExportWritten DEF CacheOK
  <2> QED BY <2>1, <2>2, Unchanged, TypeParts DEF workVars, svcVars
<1>6. CASE CollectPolicy(s)
  <2>1. /\ CommitPolicy(s, NotFound)
        /\ fresh' = (fresh /\ key # s)
        /\ UNCHANGED <<svcVars, refVars, exportVars, svcEventChan, queue, pc,
                       key, owner, clusters>>
    BY <1>6 DEF CollectPolicy
  <2>2. PolicyOK' /\ \A t \in Services \ {s} : policy'[t] = policy[t]
    BY <2>1, PolicyWritten DEF CacheOK
  <2>3. WorkOK'
    BY <2>1 DEF CacheOK, WorkOK
  <2>4. CopyOK'
    <3>1. SUFFICES ASSUME pc' = "updatePolicy", fresh' PROVE policy'[key'] # NotFound
      BY DEF CopyOK
    <3>2. pc = "updatePolicy" /\ fresh /\ key' = key /\ key # s
      BY <2>1, <3>1
    <3>3. key \in Services
      BY <3>2, AtWork
    <3> QED BY <2>2, <3>2, <3>3 DEF CacheOK, CopyOK
  <2> QED BY <2>1, <2>2, <2>3, <2>4, Unchanged, TypeParts DEF svcVars
<1> QED BY <1>1, <1>2, <1>3, <1>4, <1>5, <1>6 DEF HandlerStep

LEMMA CacheWorkStep == CacheOK /\ (WorkStep \/ FaultStep) => CacheOK'
<1> SUFFICES ASSUME CacheOK, WorkStep \/ FaultStep PROVE CacheOK'
  OBVIOUS
<1> USE DEF svcVars
<1>1. ASSUME NEW s \in Services, Reconcile(s) PROVE CacheOK'
  <2>1. UNCHANGED <<svcVars, refVars, exportVars, policyVars, svcEventChan,
                    clusters, fresh>>
    BY <1>1 DEF Reconcile
  <2>2. /\ pc = "idle" /\ queue' = queue \ {s}
        /\ \/ UNCHANGED <<pc, key, owner>>
           \/ /\ svcCache[s] # NotFound
              /\ pc' = "listMCIs" /\ key' = s /\ owner' = svcCache[s].uid
    BY <1>1 DEF Reconcile
  <2>3. svcCache[s] # NotFound => svcCache[s].uid \in UIDs
    BY DEF CacheOK, SvcOK, Svc
  <2>4. QueueOK' /\ CopyOK'
    BY <2>1, <2>2 DEF CacheOK, QueueOK, CopyOK
  <2>5. WorkOK'
    <3>1. \A u \in UIDs : u # NotFound
      BY ConstantsAssumption
    <3>2. s # NotFound
      BY ConstantsAssumption
    <3> QED BY <2>1, <2>2, <2>3, <3>1, <3>2 DEF CacheOK, WorkOK, Steps
  <2> QED BY <2>1, <2>4, <2>5, Unchanged, TypeParts
<1>2. CASE ListMCIs \/ GetMCS \/ GetExport \/ GetExportToDelete
  <2>1. Reads /\ UNCHANGED <<clusters, fresh>> /\ pc # "idle"
    BY <1>2 DEF ListMCIs, GetMCS, GetExport, GetExportToDelete
  <2>2. PICK step \in Steps \ {"updatePolicy"} : Goto(step)
    <3>1. CASE ListMCIs
      BY <3>1 DEF ListMCIs, Steps, EnsureSteps
    <3>2. CASE GetMCS
      BY <3>2 DEF GetMCS, Steps, EnsureSteps, RemoveSteps
    <3>3. CASE GetExport
      BY <3>3 DEF GetExport, Steps, EnsureSteps
    <3>4. CASE GetExportToDelete
      BY <3>4 DEF GetExportToDelete, Steps, RemoveSteps
    <3> QED BY <1>2, <3>1, <3>2, <3>3, <3>4
  <2>3. WorkOK' /\ queue' = queue /\ pc' # "updatePolicy"
    BY <2>1, <2>2, AtWork, WentOn
  <2> QED BY <2>1, <2>3, Unchanged, TypeParts DEF Reads, CopyOK
<1>3. CASE CreateExport(TRUE) \/ CreateExport(FALSE)
  <2>1. /\ pc # "idle" /\ Commit(key, owner)
        /\ UNCHANGED <<svcVars, refVars, policyVars, svcEventChan>>
        /\ \/ Goto("listBindings") /\ UNCHANGED <<clusters, fresh>>
           \/ Requeue
    BY <1>3 DEF CreateExport, createServiceExportTemplate
  <2>2. ExportOK'
    BY <2>1, AtWork, ExportWritten DEF CacheOK
  <2>3. WorkOK' /\ CopyOK' /\ (queue' = queue \/ queue' = queue \cup {key})
    <3>1. CASE Goto("listBindings") /\ UNCHANGED <<clusters, fresh>>
      BY <2>1, <3>1, AtWork, WentOn DEF Steps, EnsureSteps, CopyOK
    <3>2. CASE Requeue
      BY <3>2, Returned DEF Requeue
    <3> QED BY <2>1, <3>1, <3>2
  <2> QED BY <2>1, <2>2, <2>3, QueueReturned, Unchanged, TypeParts
<1>4. CASE ListBindings
  <2>1. Reads /\ pc # "idle"
    BY <1>4 DEF ListBindings
  <2>2. \/ Return /\ queue' = queue
        \/ /\ Goto("getPolicy") /\ clusters' = getBindingClusterResults(key)
           /\ fresh' = fresh
    BY <1>4 DEF ListBindings, Done
  <2>3. WorkOK' /\ CopyOK' /\ queue' = queue
    <3>1. CASE Return /\ queue' = queue
      BY <3>1, Returned
    <3>2. CASE /\ Goto("getPolicy") /\ clusters' = getBindingClusterResults(key)
               /\ fresh' = fresh
      BY <2>1, <3>2, AtWork, ResultsAreClusters, WentOn
      DEF Steps, EnsureSteps, CopyOK
    <3> QED BY <2>2, <3>1, <3>2
  <2> QED BY <2>1, <2>3, Unchanged, TypeParts DEF Reads
<1>5. CASE GetPolicy
  <2>1. Reads /\ pc = "getPolicy" /\ key \in Services
    BY <1>5, AtWork DEF GetPolicy
  <2>2. \/ Return /\ queue' = queue
        \/ /\ Goto("createPolicy") /\ UNCHANGED clusters
           /\ fresh' = (policyWatch[key] = <<>>)
        \/ /\ Goto("updatePolicy") /\ UNCHANGED clusters
           /\ fresh' = (policyWatch[key] = <<>>)
           /\ policyCache[key] # NotFound
    BY <1>5 DEF GetPolicy, PolicyStep, Done
  <2>3. CASE Return /\ queue' = queue
    BY <2>1, <2>3, Returned, Unchanged, TypeParts DEF Reads
  <2>4. CASE pc' = "createPolicy" /\ Goto("createPolicy") /\ UNCHANGED clusters
             /\ fresh' = (policyWatch[key] = <<>>)
    <3>1. WorkOK' /\ queue' = queue /\ CopyOK'
      BY <2>1, <2>4, AtWork, WentOn DEF Steps, EnsureSteps, CopyOK
    <3> QED BY <2>1, <3>1, Unchanged, TypeParts DEF Reads
  <2>5. CASE /\ Goto("updatePolicy") /\ UNCHANGED clusters
             /\ fresh' = (policyWatch[key] = <<>>)
             /\ policyCache[key] # NotFound
    <3>1. fresh' \in BOOLEAN
      BY <2>5
    <3>2. WorkOK' /\ queue' = queue /\ key' = key
      BY <2>1, <2>5, <3>1, AtWork, WentOn DEF Steps, EnsureSteps
    <3>3. Ends(policyWatch[key], policyCache[key], policy[key])
      BY <2>1 DEF CacheOK, PolicyOK
    <3>4. fresh' => policy[key] # NotFound
      BY <2>5, <3>3 DEF Ends
    <3>5. CopyOK'
      BY <2>1, <3>2, <3>4 DEF Reads, policyVars, CopyOK
    <3> QED BY <2>1, <3>2, <3>5, Unchanged, TypeParts DEF Reads
  <2> QED BY <2>2, <2>3, <2>4, <2>5 DEF Goto
<1>6. CASE \/ CreatePolicy(TRUE) \/ CreatePolicy(FALSE)
           \/ UpdatePolicy(TRUE) \/ UpdatePolicy(FALSE)
  <2>1. /\ pc # "idle" /\ Return
        /\ queue' = queue \/ queue' = queue \cup {key}
        /\ UNCHANGED <<svcVars, refVars, exportVars, svcEventChan>>
    BY <1>6 DEF CreatePolicy, UpdatePolicy, Done, Requeue
  <2>2. PICK obj \in Policy \cup {NotFound} : CommitPolicy(key, obj)
    <3>1. CASE CreatePolicy(TRUE) \/ CreatePolicy(FALSE)
      <4>1. createPropagationPolicyTemplate(owner, clusters) \in Policy
        BY <2>1, AtWork DEF createPropagationPolicyTemplate, Policy
      <4> QED BY <3>1, <4>1 DEF CreatePolicy
    <3>2. CASE UpdatePolicy(TRUE) \/ UpdatePolicy(FALSE)
      <4>1. policy[key] # NotFound
        BY <3>2 DEF UpdatePolicy, CacheOK, CopyOK
      <4>2. policy[key] \in Policy
        BY <2>1, <4>1, AtWork DEF CacheOK, PolicyOK
      <4>3. [policy[key] EXCEPT !.clusters = clusters] \in Policy
        BY <2>1, <4>2, AtWork DEF Policy
      <4> QED BY <3>2, <4>3 DEF UpdatePolicy
    <3> QED BY <1>6, <3>1, <3>2
  <2>3. PolicyOK'
    BY <2>1, <2>2, AtWork, PolicyWritten DEF CacheOK
  <2> QED BY <2>1, <2>3, Returned, QueueReturned, Unchanged, TypeParts
<1>7. CASE Rejected \/ CallFails
  BY <1>7, Returned, QueueReturned, Unchanged, TypeParts
  DEF Rejected, CallFails, Requeue, Reads
<1>8. CASE DeleteExport(TRUE) \/ DeleteExport(FALSE)
  <2>1. /\ pc # "idle"
        /\ UNCHANGED exportVars \/ Commit(key, NotFound)
        /\ UNCHANGED <<svcVars, refVars, policyVars, svcEventChan>>
        /\ \/ Goto("getPolicyToDelete") /\ UNCHANGED <<clusters, fresh>>
           \/ Requeue
    BY <1>8 DEF DeleteExport
  <2>2. ExportOK'
    BY <2>1, AtWork, ExportWritten, Unchanged DEF CacheOK
  <2>3. WorkOK' /\ CopyOK' /\ (queue' = queue \/ queue' = queue \cup {key})
    <3>1. CASE Goto("getPolicyToDelete") /\ UNCHANGED <<clusters, fresh>>
      BY <2>1, <3>1, AtWork, WentOn DEF Steps, RemoveSteps, CopyOK
    <3>2. CASE Requeue
      BY <3>2, Returned DEF Requeue
    <3> QED BY <2>1, <3>1, <3>2
  <2> QED BY <2>1, <2>2, <2>3, QueueReturned, Unchanged, TypeParts
<1>9. CASE GetPolicyToDelete
  <2>1. Reads /\ pc # "idle"
        /\ \/ Return /\ queue' = queue
           \/ Goto("deletePolicy") /\ UNCHANGED <<clusters, fresh>>
    BY <1>9 DEF GetPolicyToDelete, Done
  <2>2. WorkOK' /\ CopyOK' /\ queue' = queue
    <3>1. CASE Return /\ queue' = queue
      BY <3>1, Returned
    <3>2. CASE Goto("deletePolicy") /\ UNCHANGED <<clusters, fresh>>
      BY <2>1, <3>2, AtWork, WentOn DEF Steps, RemoveSteps, CopyOK
    <3> QED BY <2>1, <3>1, <3>2
  <2> QED BY <2>1, <2>2, Unchanged, TypeParts DEF Reads
<1>10. CASE DeletePolicy(TRUE) \/ DeletePolicy(FALSE)
  <2>1. /\ pc # "idle"
        /\ UNCHANGED policyVars \/ CommitPolicy(key, NotFound)
        /\ UNCHANGED <<svcVars, refVars, exportVars, svcEventChan>>
        /\ Return
        /\ queue' = queue \/ queue' = queue \cup {key}
    BY <1>10 DEF DeletePolicy, Done, Requeue
  <2>2. PolicyOK'
    BY <2>1, AtWork, PolicyWritten, Unchanged DEF CacheOK
  <2> QED BY <2>1, <2>2, Returned, QueueReturned, Unchanged, TypeParts
<1>11. CASE Restart
  <2>1. Return
    BY <1>11 DEF Restart
  <2>2. /\ svcCache' = service /\ svcWatch' = [s \in Services |-> <<>>]
        /\ UNCHANGED <<service, incarnations>>
        /\ exportCache' = export /\ exportWatch' = [s \in Services |-> <<>>]
        /\ policyCache' = policy /\ policyWatch' = [s \in Services |-> <<>>]
        /\ UNCHANGED <<refVars, export, policy>>
    BY <1>11 DEF Restart, NoEvents
  <2>3. SvcOK'
    <3>1. ASSUME NEW s \in Services PROVE HistoryOK(s)'
      BY <2>2, EmptyLength DEF CacheOK, SvcOK, HistoryOK, Past, Ends
    <3> QED BY <2>2, <3>1, EmptySeq DEF CacheOK, SvcOK
  <2>4. ExportOK' /\ PolicyOK'
    BY <2>2, EmptySeq DEF CacheOK, ExportOK, PolicyOK, Ends
  <2>5. QueueOK'
    <3>1. \A i \in MCIs : Impacted(NotFound, mci[i]) \subseteq Services
      BY ImpactedAreServices DEF CacheOK, RefOK
    <3>2. /\ svcEventChan' =
              {s \in Services : mcs[s] # NotFound
                                 \/ rbNotifies(NotFound, rb[s])}
              \cup UNION {Impacted(NotFound, mci[i]) :
                          i \in {j \in MCIs : mci[j] # NotFound}}
          /\ svcCreated' \subseteq Services /\ queue' = {}
      BY <1>11 DEF Restart
    <3>3. ASSUME NEW s \in svcEventChan' PROVE s \in Services
      <4>1. \/ \E i \in MCIs : s \in Impacted(NotFound, mci[i])
            \/ s \in Services
        BY <3>2, Zenon
      <4> QED BY <3>1, <4>1
    <3> QED BY <3>2, <3>3 DEF QueueOK
  <2> QED BY <2>1, <2>2, <2>3, <2>4, <2>5, Returned, Unchanged, TypeParts
<1>12. ASSUME NEW s \in Services, RelistService(s) PROVE CacheOK'
  BY <1>12, CacheHandlerStep
<1> QED
  BY <1>1, <1>2, <1>3, <1>4, <1>5, <1>6, <1>7, <1>8, <1>9, <1>10, <1>11, <1>12
  DEF WorkStep, FaultStep

LEMMA CacheStutter == CacheOK /\ UNCHANGED vars => CacheOK'
  BY Unchanged, TypeParts DEF vars, svcVars, workVars

LEMMA CacheStep == CacheOK /\ [Next]_vars => CacheOK'
  BY CacheUserStep, CacheHandlerStep, CacheWorkStep, CacheStutter DEF Next

\* Services, ServiceExports, policies, their informers, the channel, the queue
\* and the worker's copies have their types: an update of a policy finds the
\* one that the worker has read.
THEOREM TypeCorrect == Spec => []TypeOK
<1>1. CacheOK => TypeOK
  BY TypeParts
<1> QED BY <1>1, CacheInit, CacheStep, PTL DEF Spec
-----------------------------------------------------------------------------
\* A Service that a step does not concern
Same(s) ==
  /\ UNCHANGED <<service[s], svcWatch[s], incarnations[s], export[s],
                 policy[s]>>
  /\ UNCHANGED <<ReferTo(s), mcs[s], rb[s]>>
  /\ (s \in svcCreated)' <=> s \in svcCreated
  /\ (s \in queue \cup svcEventChan)' <=> s \in queue \cup svcEventChan
  /\ Busy(s)' <=> Busy(s)
  /\ Busy(s) => UNCHANGED <<pc, owner, clusters, exportWatch[s],
                            policyWatch[s]>>

LEMMA SameClaims ==
  ASSUME NEW s \in Services, Same(s), ServiceClaims(s)
  PROVE  ServiceClaims(s)'
<1>1. /\ service'[s] = service[s] /\ svcWatch'[s] = svcWatch[s]
      /\ incarnations'[s] = incarnations[s]
      /\ export'[s] = export[s] /\ policy'[s] = policy[s]
      /\ mcs'[s] = mcs[s] /\ rb'[s] = rb[s] /\ ReferTo(s)' = ReferTo(s)
      /\ s \in svcCreated' <=> s \in svcCreated
      /\ s \in queue' \cup svcEventChan' <=> s \in queue \cup svcEventChan
      /\ Busy(s)' <=> Busy(s)
      /\ Busy(s) => /\ pc' = pc /\ owner' = owner /\ clusters' = clusters
                    /\ exportWatch'[s] = exportWatch[s]
                    /\ policyWatch'[s] = policyWatch[s]
  BY DEF Same
<1>2. /\ Quiet(s)' <=> Quiet(s)
      /\ Wanted(s)' <=> Wanted(s)
      /\ getBindingClusterResults(s)' = getBindingClusterResults(s)
      /\ Live(s)' <=> Live(s)
      /\ Unused(s)' <=> Unused(s)
  BY <1>1 DEF Quiet, Live, Wanted, HasLoadBalancer, getBindingClusterResults,
     Unused
<1>3. Busy(s) => (Lives(s, owner)' <=> Lives(s, owner))
  BY <1>1 DEF Lives
<1>4. BoundsOK(s)' /\ UnusedOK(s)' /\ ProvidedOK(s)' /\ WithdrawnOK(s)'
  BY <1>1, <1>2
  DEF ServiceClaims, BoundsOK, UnusedOK, ProvidedOK, WithdrawnOK
<1>5. OwnerOK(s)' /\ OutputsKnown(s)' /\ BranchOK(s)'
  BY <1>1, <1>2, <1>3 DEF ServiceClaims, OwnerOK, OutputsKnown, BranchOK
<1> QED BY <1>4, <1>5 DEF ServiceClaims

\* The types of what belongs to a Service; a live one has the UID of its last
\* incarnation, and a cache that waits for nothing shows it.
LEMMA ServiceTypes ==
  ASSUME CacheOK, NEW s \in Services
  PROVE  /\ incarnations[s] \in Nat
         /\ service[s] \in Svc \cup {NotFound}
         /\ export[s] \in UIDs \cup {NotFound}
         /\ policy[s] \in Policy \cup {NotFound}
         /\ \A p \in Policy : p.owner \in UIDs /\ p # NotFound
         /\ \A u \in UIDs : u \in Nat /\ u # NotFound
         /\ Live(s) => /\ service[s].uid = incarnations[s]
                       /\ incarnations[s] \in UIDs
                       /\ incarnations[s] # NotFound
         /\ svcWatch[s] = <<>> => svcCache[s] = service[s]
         /\ exportWatch[s] = <<>> => exportCache[s] = export[s]
         /\ policyWatch[s] = <<>> => policyCache[s] = policy[s]
<1>1. /\ MaxUID \in Nat /\ \A u \in UIDs : u # NotFound
      /\ \A p \in Policy : p # NotFound
  BY ConstantsAssumption
<1>2. /\ \A u \in UIDs : u \in Nat
      /\ \A p \in Policy : p.owner \in UIDs
      /\ \A e \in Svc : e.uid \in UIDs
  BY <1>1 DEF UIDs, Policy, Svc
<1>3. /\ incarnations[s] \in 0 .. MaxUID /\ service[s] \in Svc \cup {NotFound}
      /\ HistoryOK(s)
  BY DEF CacheOK, SvcOK
<1>4. incarnations[s] \in Nat
  BY <1>1, <1>3
<1>5. Live(s) => /\ service[s].uid = incarnations[s]
                 /\ incarnations[s] \in UIDs
                 /\ incarnations[s] # NotFound
  BY <1>1, <1>2, <1>3 DEF HistoryOK, Live
<1>6. svcWatch[s] = <<>> => svcCache[s] = service[s]
  BY <1>3 DEF HistoryOK, Ends
<1>7. /\ export[s] \in UIDs \cup {NotFound}
      /\ policy[s] \in Policy \cup {NotFound}
      /\ exportWatch[s] = <<>> => exportCache[s] = export[s]
      /\ policyWatch[s] = <<>> => policyCache[s] = policy[s]
  BY DEF CacheOK, ExportOK, PolicyOK, Ends
<1> QED BY <1>1, <1>2, <1>3, <1>4, <1>5, <1>6, <1>7
-----------------------------------------------------------------------------
LEMMA ClaimsInit == Init => Claims
<1> SUFFICES ASSUME Init, NEW s \in Services PROVE ServiceClaims(s)
  BY DEF Claims
<1>1. /\ service[s] = NotFound /\ export[s] = NotFound /\ policy[s] = NotFound
      /\ pc = "idle"
  BY DEF Init, Nothing
<1>2. ~Live(s) /\ ~Busy(s)
  BY <1>1 DEF Live, Busy
<1> QED
  BY <1>1, <1>2
  DEF ServiceClaims, BoundsOK, UnusedOK, ProvidedOK, WithdrawnOK, OwnerOK,
      OutputsKnown, BranchOK, Quiet

\* A Service is created, or goes: what is under way for it is not trusted
\* until the cache has heard of that.
LEMMA ClaimsServiceWritten ==
  ASSUME CacheOK, Claims, NEW s \in Services,
         CreateService(s) \/ DeleteService(s)
  PROVE  Claims'
<1>1. /\ svcWatch'[s] # <<>>
      /\ \A t \in Services \ {s} :
           /\ service'[t] = service[t] /\ svcWatch'[t] = svcWatch[t]
           /\ incarnations'[t] = incarnations[t]
      /\ incarnations'[s] \in {incarnations[s], incarnations[s] + 1}
      /\ Live(s)' => incarnations'[s] = incarnations[s] + 1
      /\ \A uid \in Nat : uid <= incarnations[s] /\ Lives(s, uid)' => Lives(s, uid)
      /\ UNCHANGED <<svcCreated, refVars, exportVars, policyVars,
                     svcEventChan, queue, workVars>>
  BY ServiceWritten DEF CacheOK
<1>2. ASSUME NEW t \in Services \ {s} PROVE ServiceClaims(t)'
  <2>1. Same(t)
    BY <1>1 DEF Same, Busy, ReferTo, refVars, exportVars, policyVars, workVars
  <2> QED BY <2>1, SameClaims DEF Claims
<1>3. ServiceClaims(s)'
  <2> USE ServiceTypes
  <2>1. /\ export'[s] = export[s] /\ policy'[s] = policy[s]
        /\ exportWatch'[s] = exportWatch[s] /\ policyWatch'[s] = policyWatch[s]
        /\ Busy(s)' <=> Busy(s)
        /\ pc' = pc /\ owner' = owner
    BY <1>1 DEF exportVars, policyVars, workVars, Busy
  <2>2. ServiceClaims(s)
    BY DEF Claims
  <2>3. Busy(s) => owner \in Nat /\ owner <= incarnations[s]
    BY <2>2, AtWork DEF Busy, ServiceClaims, OwnerOK
  <2>4. BoundsOK(s)'
    BY <1>1, <2>1, <2>2 DEF ServiceClaims, BoundsOK
  <2>5. UnusedOK(s)'
    <3>1. export[s] # NotFound => export[s] # incarnations[s] + 1
      BY <2>2 DEF ServiceClaims, BoundsOK
    <3>2. policy[s] # NotFound => policy[s].owner # incarnations[s] + 1
      BY <2>2 DEF ServiceClaims, BoundsOK
    <3>3. Live(s)' => incarnations'[s] # NotFound
      <4>1. CacheOK'
        BY CacheUserStep DEF UserStep
      <4>2. SvcOK' /\ (\A u \in UIDs : u # NotFound)
        BY <4>1, ConstantsAssumption DEF CacheOK
      <4>3. /\ service'[s] # NotFound => service'[s].uid = incarnations'[s]
            /\ service'[s] \in Svc \cup {NotFound}
        BY <4>2 DEF SvcOK, HistoryOK
      <4> QED BY <4>2, <4>3 DEF Live, Svc
    <3> QED BY <1>1, <2>1, <3>1, <3>2, <3>3 DEF UnusedOK, Unused
  <2>6. ~Quiet(s)'
    BY <1>1 DEF Quiet
  <2>7. ProvidedOK(s)' /\ WithdrawnOK(s)'
    BY <2>6 DEF ProvidedOK, WithdrawnOK
  <2>8. OwnerOK(s)'
    BY <1>1, <2>1, <2>3 DEF OwnerOK
  <2>9. OutputsKnown(s)'
    <3>1. Busy(s) /\ Lives(s, owner)' => Lives(s, owner)
      BY <1>1, <2>1, <2>3 DEF Lives
    <3> QED BY <2>1, <2>2, <3>1 DEF ServiceClaims, OutputsKnown
  <2>10. BranchOK(s)'
    <3>1. /\ UNCHANGED <<pc, clusters, queue, svcEventChan>>
          /\ ReferTo(s)' = ReferTo(s) /\ (Wanted(s)' <=> Wanted(s))
          /\ getBindingClusterResults(s)' = getBindingClusterResults(s)
      BY <1>1 DEF workVars, refVars, ReferTo, Wanted, HasLoadBalancer,
         getBindingClusterResults
    <3> QED BY <2>1, <2>2, <2>6, <3>1 DEF ServiceClaims, BranchOK
  <2> QED BY <2>4, <2>5, <2>7, <2>8, <2>9, <2>10 DEF ServiceClaims
<1> QED BY <1>2, <1>3 DEF Claims

\* The cache hears of a Service.
LEMMA ClaimsServiceObserved ==
  ASSUME InTimeAssumption, CacheOK, Claims, NEW s \in Services,
         DeliverService(s) \/ RelistService(s)
  PROVE  Claims'
<1>1. /\ svcWatch[s] # <<>>
      /\ \A t \in Services \ {s} : svcWatch'[t] = svcWatch[t]
      /\ svcCreated \subseteq svcCreated'
      /\ svcCreated' \subseteq svcCreated \cup {s}
      /\ Live(s) /\ svcWatch'[s] = <<>> => s \in svcCreated'
      /\ UNCHANGED <<service, incarnations, refVars, exportVars, policyVars,
                     svcEventChan, queue, workVars>>
  BY ServiceObserved DEF CacheOK
<1>2. ASSUME NEW t \in Services \ {s} PROVE ServiceClaims(t)'
  <2>1. Same(t)
    BY <1>1 DEF Same, Busy, ReferTo, refVars, exportVars, policyVars, workVars
  <2> QED BY <2>1, SameClaims DEF Claims
<1>3. ServiceClaims(s)'
  <2>1. /\ service'[s] = service[s] /\ incarnations'[s] = incarnations[s]
        /\ export'[s] = export[s] /\ policy'[s] = policy[s]
        /\ exportWatch'[s] = exportWatch[s] /\ policyWatch'[s] = policyWatch[s]
        /\ Busy(s)' <=> Busy(s)
        /\ pc' = pc /\ owner' = owner
        /\ Live(s)' <=> Live(s)
        /\ Unused(s)' <=> Unused(s)
        /\ \A u : Lives(s, u)' <=> Lives(s, u)
    BY <1>1 DEF exportVars, policyVars, workVars, Busy, Live, Unused, Lives
  <2>2. ServiceClaims(s)
    BY DEF Claims
  <2>3. Live(s) => Unused(s)
    BY <1>1, <2>2 DEF ServiceClaims, UnusedOK
  <2>4. Quiet(s)' => s \in svcCreated'
    BY <1>1, <2>1 DEF Quiet
  <2>5. BoundsOK(s)' /\ UnusedOK(s)' /\ ProvidedOK(s)' /\ WithdrawnOK(s)'
    BY <2>1, <2>2, <2>3, <2>4
    DEF ServiceClaims, BoundsOK, UnusedOK, ProvidedOK, WithdrawnOK, Quiet
  <2>6. OwnerOK(s)' /\ OutputsKnown(s)'
    BY <1>1, <2>1, <2>2 DEF ServiceClaims, OwnerOK, OutputsKnown, Lives
  <2>7. BranchOK(s)'
    <3>1. /\ UNCHANGED <<pc, clusters, queue, svcEventChan>>
          /\ ReferTo(s)' = ReferTo(s) /\ (Wanted(s)' <=> Wanted(s))
          /\ getBindingClusterResults(s)' = getBindingClusterResults(s)
      BY <1>1 DEF workVars, refVars, ReferTo, Wanted, HasLoadBalancer,
         getBindingClusterResults
    <3> QED BY <2>1, <2>2, <2>4, <3>1 DEF ServiceClaims, BranchOK
  <2> QED BY <2>5, <2>6, <2>7 DEF ServiceClaims
<1> QED BY <1>2, <1>3 DEF Claims

\* What an MCI, an MCS or a binding says of a Service changes only with the
\* Service in the channel; but a binding may go, or come back as it was.
LEMMA ClaimsReference ==
  ASSUME NEW s \in Services, ServiceClaims(s),
         UNCHANGED <<svcVars, exportVars, policyVars, queue, workVars>>,
         \/ s \in svcEventChan'
         \/ /\ s \in svcEventChan' <=> s \in svcEventChan
            /\ ReferTo(s)' = ReferTo(s) /\ mcs'[s] = mcs[s]
            /\ rb'[s] # NotFound => rb[s] # NotFound
            /\ getBindingClusterResults(s)' # {} =>
                 getBindingClusterResults(s)' = getBindingClusterResults(s)
  PROVE  ServiceClaims(s)'
<1>1. /\ service' = service /\ incarnations' = incarnations
      /\ svcWatch' = svcWatch /\ svcCreated' = svcCreated /\ queue' = queue
      /\ export' = export /\ policy' = policy
      /\ exportWatch' = exportWatch /\ policyWatch' = policyWatch
      /\ pc' = pc /\ key' = key /\ owner' = owner /\ clusters' = clusters
  BY DEF svcVars, exportVars, policyVars, workVars
<1>2. /\ Busy(s)' <=> Busy(s)
      /\ Live(s)' <=> Live(s)
      /\ Unused(s)' <=> Unused(s)
      /\ Lives(s, owner)' <=> Lives(s, owner)
  BY <1>1 DEF Busy, Live, Unused, Lives
<1>3. BoundsOK(s)' /\ UnusedOK(s)' /\ OwnerOK(s)' /\ OutputsKnown(s)'
  BY <1>1, <1>2 DEF ServiceClaims, BoundsOK, UnusedOK, OwnerOK, OutputsKnown
<1>4. CASE s \in svcEventChan'
  BY <1>3, <1>4 DEF ServiceClaims, ProvidedOK, WithdrawnOK, BranchOK, Quiet
<1>5. CASE s \notin svcEventChan'
  <2>1. /\ s \notin svcEventChan
        /\ ReferTo(s)' = ReferTo(s)
        /\ Wanted(s)' <=> Wanted(s)
        /\ Quiet(s)' <=> Quiet(s)
        /\ rb'[s] # NotFound => rb[s] # NotFound
        /\ getBindingClusterResults(s)' # {} =>
             getBindingClusterResults(s)' = getBindingClusterResults(s)
    BY <1>1, <1>2, <1>5 DEF Wanted, HasLoadBalancer, Quiet
  <2>2. ProvidedOK(s)' /\ WithdrawnOK(s)'
    BY <1>1, <1>2, <2>1 DEF ServiceClaims, ProvidedOK, WithdrawnOK
  <2>3. BranchOK(s)'
    BY <1>1, <1>2, <1>5, <2>1 DEF ServiceClaims, BranchOK
  <2> QED BY <1>3, <2>2, <2>3 DEF ServiceClaims
<1> QED BY <1>4, <1>5

LEMMA ClaimsReferences ==
  ASSUME OurMCIs, CacheOK, Claims,
         \/ \E s \in Services : MCSEvent(s) \/ ResourceBindingEvent(s)
         \/ \E i \in MCIs : MCIEvent(i)
  PROVE  Claims'
<1>1. ASSUME NEW i \in MCIs, MCIEvent(i), NEW s \in Services
      PROVE  ServiceClaims(s)'
  <2>1. PICK new \in (MCI \cup {NotFound}) \ {mci[i]} :
          /\ mci' = [mci EXCEPT ![i] = new]
          /\ svcEventChan' = svcEventChan \cup Impacted(mci[i], new)
    BY <1>1 DEF MCIEvent
  <2>2. UNCHANGED <<svcVars, mcs, rb, exportVars, policyVars, queue, workVars>>
    BY <1>1 DEF MCIEvent
  <2>3. mci \in [MCIs -> MCI \cup {NotFound}]
    BY DEF CacheOK, RefOK
  <2>4. \A m \in MCI : m.served = TRUE /\ m.refs \subseteq Services
    BY DEF MCI, OurMCIs
  <2>5. CASE s \in Impacted(mci[i], new)
    BY <2>1, <2>2, <2>5, ClaimsReference DEF Claims
  <2>6. CASE s \notin Impacted(mci[i], new)
    <3>1. s \in Refs(mci[i]) <=> s \in Refs(new)
      BY <2>1, <2>3, <2>4, <2>6 DEF Impacted
    <3>2. \A j \in MCIs : (mci'[j] # NotFound /\ s \in mci'[j].refs)
                          <=> (mci[j] # NotFound /\ s \in mci[j].refs)
      BY <2>1, <2>3, <3>1 DEF Refs
    <3>3. ReferTo(s)' = ReferTo(s)
      BY <3>2 DEF ReferTo
    <3>4. /\ mcs'[s] = mcs[s] /\ rb'[s] = rb[s]
          /\ getBindingClusterResults(s)' = getBindingClusterResults(s)
          /\ s \in svcEventChan' <=> s \in svcEventChan
      BY <2>1, <2>2, <2>6 DEF getBindingClusterResults
    <3> QED BY <2>2, <3>3, <3>4, ClaimsReference DEF Claims
  <2> QED BY <2>5, <2>6
<1>2. ASSUME NEW t \in Services, MCSEvent(t), NEW s \in Services
      PROVE  ServiceClaims(s)'
  <2>1. /\ UNCHANGED <<svcVars, mci, rb, exportVars, policyVars, queue,
                       workVars>>
        /\ svcEventChan' = svcEventChan \cup {t}
        /\ \E new : mcs' = [mcs EXCEPT ![t] = new]
    BY <1>2 DEF MCSEvent
  <2>2. CASE s = t
    BY <2>1, <2>2, ClaimsReference DEF Claims
  <2>3. CASE s # t
    <3>1. mcs'[s] = mcs[s]
      BY <2>1, <2>3 DEF CacheOK, RefOK
    <3>2. /\ rb'[s] = rb[s] /\ ReferTo(s)' = ReferTo(s)
          /\ getBindingClusterResults(s)' = getBindingClusterResults(s)
          /\ s \in svcEventChan' <=> s \in svcEventChan
      BY <2>1, <2>3 DEF ReferTo, getBindingClusterResults
    <3> QED BY <2>1, <3>1, <3>2, ClaimsReference DEF Claims
  <2> QED BY <2>2, <2>3
<1>3. ASSUME NEW t \in Services, ResourceBindingEvent(t), NEW s \in Services
      PROVE  ServiceClaims(s)'
  <2>1. PICK new \in (Bindings \cup {NotFound}) \ {rb[t]} :
          /\ rb' = [rb EXCEPT ![t] = new]
          /\ svcEventChan' = IF rbNotifies(rb[t], new)
                             THEN svcEventChan \cup {t} ELSE svcEventChan
    BY <1>3 DEF ResourceBindingEvent
  <2>2. UNCHANGED <<svcVars, mci, mcs, exportVars, policyVars, queue, workVars>>
    BY <1>3 DEF ResourceBindingEvent
  <2>3. ReferTo(s)' = ReferTo(s) /\ mcs'[s] = mcs[s]
    BY <2>2 DEF ReferTo
  <2>4. rb \in [Services -> Bindings \cup {NotFound}]
    BY DEF CacheOK, RefOK
  <2>5. CASE s = t
    <3>1. CASE rbNotifies(rb[t], new)
      BY <2>1, <2>2, <2>5, <3>1, ClaimsReference DEF Claims
    <3>2. CASE ~rbNotifies(rb[t], new)
      <4>1. /\ rb'[s] = new
            /\ s \in svcEventChan' <=> s \in svcEventChan
        BY <2>1, <2>4, <2>5, <3>2
      <4>2. new # NotFound =>
              /\ rb[s] # NotFound
              /\ getClusterResults(rb[s]) = getClusterResults(new)
        BY <2>5, <3>2 DEF rbNotifies
      <4>3. new = NotFound => getClusterResults(new) = {}
        BY DEF getClusterResults
      <4>4. /\ rb'[s] # NotFound => rb[s] # NotFound
            /\ getBindingClusterResults(s)' # {} =>
                 getBindingClusterResults(s)' = getBindingClusterResults(s)
        BY <4>1, <4>2, <4>3 DEF getBindingClusterResults
      <4> QED BY <2>2, <2>3, <4>1, <4>4, ClaimsReference DEF Claims
    <3> QED BY <3>1, <3>2
  <2>6. CASE s # t
    <3>1. rb'[s] = rb[s] /\ (s \in svcEventChan' <=> s \in svcEventChan)
      BY <2>1, <2>4, <2>6
    <3> QED
      BY <2>2, <2>3, <3>1, ClaimsReference DEF Claims, getBindingClusterResults
  <2> QED BY <2>5, <2>6
<1> QED BY <1>1, <1>2, <1>3 DEF Claims

\* The two handlers that fill the queue
LEMMA ClaimsEnqueue ==
  ASSUME Claims, NEW s \in Services, ServiceCreate(s) \/ ServiceGeneric(s)
  PROVE  Claims'
<1>1. CASE ServiceGeneric(s)
  <2>1. UNCHANGED <<svcVars, refVars, exportVars, policyVars, workVars>>
        /\ queue' \cup svcEventChan' = queue \cup svcEventChan
    BY <1>1 DEF ServiceGeneric
  <2>2. ASSUME NEW t \in Services PROVE Same(t)
    BY <2>1
    DEF Same, Busy, ReferTo, svcVars, refVars, exportVars, policyVars, workVars
  <2> QED BY <2>2, SameClaims DEF Claims
<1>2. CASE ServiceCreate(s)
  <2>1. /\ s \in svcCreated /\ svcCreated' = svcCreated \ {s}
        /\ \/ queue' = queue \cup {s}
           \/ queue' = queue /\ ReferTo(s) = {} /\ mcs[s] = NotFound
        /\ UNCHANGED <<service, svcWatch, incarnations, refVars, exportVars,
                       policyVars, svcEventChan, workVars>>
    BY <1>2 DEF ServiceCreate, serviceCreateEnqueues
  <2>2. ASSUME NEW t \in Services \ {s} PROVE ServiceClaims(t)'
    <3>1. Same(t)
      BY <2>1 DEF Same, Busy, ReferTo, refVars, exportVars, policyVars, workVars
    <3> QED BY <3>1, SameClaims DEF Claims
  <2>3. ServiceClaims(s)'
    <3>1. ServiceClaims(s)
      BY DEF Claims
    <3>2. /\ service' = service /\ svcWatch' = svcWatch
          /\ incarnations' = incarnations
          /\ export' = export /\ policy' = policy
          /\ exportWatch' = exportWatch /\ policyWatch' = policyWatch
          /\ pc' = pc /\ key' = key /\ owner' = owner /\ clusters' = clusters
          /\ ReferTo(s)' = ReferTo(s) /\ rb' = rb
          /\ (Wanted(s)' <=> Wanted(s)) /\ (Busy(s)' <=> Busy(s))
          /\ (Live(s)' <=> Live(s)) /\ (Unused(s)' <=> Unused(s))
          /\ getBindingClusterResults(s)' = getBindingClusterResults(s)
      BY <2>1 DEF refVars, exportVars, policyVars, workVars, ReferTo, Wanted,
         HasLoadBalancer, Busy, Live, Unused, getBindingClusterResults
    <3>3. /\ Quiet(s)' => Quiet(s) /\ ~Wanted(s)
          /\ s \notin queue' \cup svcEventChan' =>
               s \notin queue \cup svcEventChan /\ ~Wanted(s)
      BY <2>1, <3>2 DEF Quiet, Live, Wanted, HasLoadBalancer
    <3>4. BoundsOK(s)' /\ UnusedOK(s)' /\ ProvidedOK(s)' /\ WithdrawnOK(s)'
      BY <3>1, <3>2, <3>3
      DEF ServiceClaims, BoundsOK, UnusedOK, ProvidedOK, WithdrawnOK
    <3>5. OwnerOK(s)' /\ OutputsKnown(s)'
      BY <3>1, <3>2 DEF ServiceClaims, OwnerOK, OutputsKnown, Lives
    <3>6. BranchOK(s)'
      BY <3>1, <3>2, <3>3 DEF ServiceClaims, BranchOK
    <3> QED BY <3>4, <3>5, <3>6 DEF ServiceClaims
  <2> QED BY <2>2, <2>3 DEF Claims
<1> QED BY <1>1, <1>2

\* What the garbage collector takes belongs to no live Service; a reconcile
\* of a live one does not wait for outputs to be cached.
LEMMA ClaimsOutputs ==
  ASSUME CacheOK, Claims, NEW s \in Services,
         \/ CollectExport(s) \/ CollectPolicy(s)
         \/ DeliverExport(s) \/ DeliverPolicy(s)
  PROVE  Claims'
<1>1. /\ UNCHANGED <<svcVars, refVars, svcEventChan, queue, pc, key, owner,
                     clusters>>
      /\ \A t \in Services \ {s} :
           /\ export'[t] = export[t] /\ policy'[t] = policy[t]
           /\ exportWatch'[t] = exportWatch[t] /\ policyWatch'[t] = policyWatch[t]
      /\ \/ /\ ExportOrphaned(s) /\ export'[s] = NotFound
            /\ policy' = policy /\ policyWatch' = policyWatch
         \/ /\ PolicyOrphaned(s) /\ policy'[s] = NotFound
            /\ export' = export /\ exportWatch' = exportWatch
         \/ /\ export' = export /\ policy' = policy
            /\ policyWatch' = policyWatch /\ exportWatch[s] # <<>>
         \/ /\ export' = export /\ policy' = policy
            /\ exportWatch' = exportWatch /\ policyWatch[s] # <<>>
  <2>1. CASE CollectExport(s)
    BY <2>1, ExportWritten DEF CollectExport, CacheOK, policyVars, workVars
  <2>2. CASE CollectPolicy(s)
    BY <2>2, PolicyWritten DEF CollectPolicy, CacheOK, exportVars
  <2>3. CASE DeliverExport(s)
    BY <2>3, ExportDelivered DEF CacheOK, policyVars, workVars
  <2>4. CASE DeliverPolicy(s)
    BY <2>4, PolicyDelivered DEF CacheOK, exportVars, workVars
  <2> QED BY <2>1, <2>2, <2>3, <2>4
<1>2. ASSUME NEW t \in Services \ {s} PROVE ServiceClaims(t)'
  <2>1. Same(t)
    BY <1>1 DEF Same, Busy, ReferTo, svcVars, refVars
  <2> QED BY <2>1, SameClaims DEF Claims
<1>3. ServiceClaims(s)'
  <2> USE ServiceTypes
  <2>1. ServiceClaims(s)
    BY DEF Claims
  <2>2. /\ service' = service /\ svcWatch' = svcWatch
        /\ incarnations' = incarnations /\ svcCreated' = svcCreated
        /\ queue' = queue /\ svcEventChan' = svcEventChan
        /\ pc' = pc /\ key' = key /\ owner' = owner /\ clusters' = clusters
        /\ ReferTo(s)' = ReferTo(s) /\ rb' = rb
        /\ (Wanted(s)' <=> Wanted(s)) /\ (Busy(s)' <=> Busy(s))
        /\ (Live(s)' <=> Live(s)) /\ (Quiet(s)' <=> Quiet(s))
        /\ getBindingClusterResults(s)' = getBindingClusterResults(s)
        /\ \A u : Lives(s, u)' <=> Lives(s, u)
    BY <1>1 DEF svcVars, refVars, ReferTo, Wanted, HasLoadBalancer, Busy, Live,
       Lives, Quiet, getBindingClusterResults
  <2>3. /\ \/ export'[s] = export[s]
           \/ export'[s] = NotFound /\ ExportOrphaned(s)
        /\ \/ policy'[s] = policy[s]
           \/ policy'[s] = NotFound /\ PolicyOrphaned(s)
    BY <1>1
  <2>4. /\ ExportOrphaned(s) => export[s] # NotFound /\ ~Lives(s, export[s])
        /\ PolicyOrphaned(s) =>
             policy[s] # NotFound /\ ~Lives(s, policy[s].owner)
    BY DEF ExportOrphaned, PolicyOrphaned
  <2>5. Live(s) => Lives(s, incarnations[s]) /\ (Unused(s) => Unused(s)')
    BY <2>2, <2>3, <2>4 DEF Lives, Live, Unused
  <2>6. BoundsOK(s)' /\ UnusedOK(s)'
    BY <2>1, <2>2, <2>3, <2>4, <2>5 DEF ServiceClaims, BoundsOK, UnusedOK
  <2>7. ProvidedOK(s)' /\ WithdrawnOK(s)'
    BY <2>1, <2>2, <2>3, <2>4, <2>5
    DEF ServiceClaims, ProvidedOK, WithdrawnOK, Quiet
  <2>8. OwnerOK(s)' /\ BranchOK(s)'
    BY <2>1, <2>2 DEF ServiceClaims, OwnerOK, BranchOK
  <2>9. OutputsKnown(s)'
    <3> SUFFICES ASSUME Busy(s), Lives(s, owner)
                 PROVE  /\ export'[s] = export[s] /\ policy'[s] = policy[s]
                        /\ policyWatch'[s] = policyWatch[s]
                        /\ pc \in BeforeExport =>
                             exportWatch'[s] = exportWatch[s]
      BY <2>1, <2>2 DEF ServiceClaims, OutputsKnown
    <3>1. /\ policy[s] # NotFound => Lives(s, policy[s].owner)
          /\ policyWatch[s] = <<>>
          /\ pc \in BeforeExport => exportWatch[s] = <<>>
      BY <2>1 DEF ServiceClaims, OutputsKnown
    <3>2. export[s] # NotFound => Lives(s, export[s])
      <4>1. pc \in BeforeExport \cup {"listBindings"} \cup PolicySteps
                   \cup {"getPolicyToDelete", "deletePolicy"}
        BY DEF CacheOK, WorkOK, Busy, Steps, EnsureSteps, RemoveSteps,
           BeforeExport, PolicySteps
      <4> QED BY <2>1, <4>1 DEF ServiceClaims, OutputsKnown
    <3> QED BY <1>1, <2>3, <2>4, <3>1, <3>2
  <2> QED BY <2>6, <2>7, <2>8, <2>9 DEF ServiceClaims
<1> QED BY <1>2, <1>3 DEF Claims
-----------------------------------------------------------------------------
\* The worker writes the ServiceExport and the policy of its Service alone,
\* and makes none for another incarnation than the one it has read.
OwnWrites(s) ==
  /\ \A t \in Services \ {s} : export'[t] = export[t] /\ policy'[t] = policy[t]
  /\ export'[s] \in {export[s], NotFound, owner}
  /\ policy'[s] # NotFound =>
       \/ policy'[s].owner = owner
       \/ policy[s] # NotFound /\ policy'[s].owner = policy[s].owner

LEMMA StillUnused ==
  ASSUME CacheOK, NEW s \in Services, ServiceClaims(s), Busy(s), OwnWrites(s),
         UNCHANGED <<service, incarnations>>
  PROVE  /\ BoundsOK(s)'
         /\ Live(s) /\ owner # incarnations[s] => Unused(s)'
<1> USE ServiceTypes
<1>1. owner \in Nat /\ owner <= incarnations[s]
  BY AtWork DEF ServiceClaims, OwnerOK, Busy
<1>2. BoundsOK(s)'
  BY <1>1 DEF ServiceClaims, BoundsOK, OwnWrites
<1>3. ASSUME Live(s), owner # incarnations[s] PROVE Unused(s)'
  <2>1. Unused(s)
    BY <1>3 DEF ServiceClaims, UnusedOK
  <2> QED BY <1>3, <2>1 DEF Unused, OwnWrites
<1> QED BY <1>2, <1>3

LEMMA ClaimsOfOthers ==
  ASSUME Claims, pc # "idle", NEW s \in Services, key = s, OwnWrites(s),
         UNCHANGED <<svcVars, refVars, svcEventChan>>,
         queue' = queue \/ queue' = queue \cup {s},
         pc' = "idle" \/ key' = s,
         NEW t \in Services \ {s}
  PROVE  ServiceClaims(t)'
<1>1. Same(t)
  BY DEF Same, OwnWrites, Busy, ReferTo, svcVars, refVars
<1> QED BY <1>1, SameClaims DEF Claims

\* The worker goes on.
LEMMA ClaimsWentOn ==
  ASSUME CacheOK, Claims, pc # "idle", NEW s \in Services, key = s,
         OwnWrites(s), UNCHANGED <<svcVars, refVars, svcEventChan>>,
         NEW step \in Steps \ {"idle"}, Goto(step),
         OutputsKnown(s)', BranchOK(s)'
  PROVE  Claims'
<1>1. /\ pc' # "idle" /\ key' = s /\ owner' = owner /\ queue' = queue
      /\ Busy(s) /\ Busy(s)'
      /\ service' = service /\ incarnations' = incarnations
      /\ svcWatch' = svcWatch
  BY DEF Goto, Busy, svcVars
<1>2. ServiceClaims(s)
  BY DEF Claims
<1>3. BoundsOK(s)' /\ (Live(s) /\ owner # incarnations[s] => Unused(s)')
  BY <1>1, <1>2, StillUnused
<1>4. (Live(s)' <=> Live(s)) /\ OwnerOK(s)'
  BY <1>1, <1>2 DEF Live, OwnerOK, ServiceClaims
<1>5. UnusedOK(s)'
  BY <1>1, <1>2, <1>3, <1>4 DEF UnusedOK, OwnerOK, ServiceClaims
<1>6. ProvidedOK(s)' /\ WithdrawnOK(s)'
  BY <1>1 DEF ProvidedOK, WithdrawnOK
<1>7. ServiceClaims(s)'
  BY <1>3, <1>4, <1>5, <1>6 DEF ServiceClaims
<1> QED BY <1>1, <1>7, ClaimsOfOthers DEF Claims

\* The worker is done with a Service, and has put it back into the queue or
\* has done what it had to.
Finished(s) ==
  Quiet(s) =>
    /\ Wanted(s) /\ s \notin svcCreated =>
         /\ export'[s] = incarnations[s]
         /\ getBindingClusterResults(s) # {} =>
              policy'[s] = [owner |-> incarnations[s],
                            clusters |-> getBindingClusterResults(s)]
    /\ ~Wanted(s) /\ rb[s] # NotFound =>
         /\ export'[s] # incarnations[s]
         /\ policy'[s] # NotFound => policy'[s].owner # incarnations[s]

LEMMA ClaimsReturned ==
  ASSUME CacheOK, Claims, pc # "idle", NEW s \in Services, key = s,
         OwnWrites(s), UNCHANGED <<svcVars, refVars, svcEventChan>>, Return,
         queue' = queue \cup {s} \/ (queue' = queue /\ Finished(s))
  PROVE  Claims'
<1>1. /\ ~Busy(s)' /\ Busy(s) /\ pc' = "idle"
      /\ service' = service /\ incarnations' = incarnations
      /\ svcWatch' = svcWatch /\ svcCreated' = svcCreated
      /\ rb' = rb /\ svcEventChan' = svcEventChan
      /\ ReferTo(s)' = ReferTo(s)
  BY DEF Return, Busy, svcVars, refVars, ReferTo
<1>2. /\ Live(s)' <=> Live(s)
      /\ Wanted(s)' <=> Wanted(s)
      /\ getBindingClusterResults(s)' = getBindingClusterResults(s)
      /\ Quiet(s)' => Quiet(s) /\ queue' = queue /\ Finished(s)
  BY <1>1 DEF refVars, Live, Wanted, HasLoadBalancer, Quiet,
     getBindingClusterResults
<1>3. ServiceClaims(s)
  BY DEF Claims
<1>4. BoundsOK(s)' /\ (Live(s) /\ owner # incarnations[s] => Unused(s)')
  BY <1>1, <1>3, StillUnused
<1>5. UnusedOK(s)'
  BY <1>1, <1>2, <1>3, <1>4 DEF UnusedOK, OwnerOK, ServiceClaims
<1>6. ProvidedOK(s)' /\ WithdrawnOK(s)'
  BY <1>1, <1>2 DEF ProvidedOK, WithdrawnOK, Finished, Unused
<1>7. OwnerOK(s)' /\ OutputsKnown(s)' /\ BranchOK(s)'
  BY <1>1 DEF OwnerOK, OutputsKnown, BranchOK
<1>8. ServiceClaims(s)'
  BY <1>4, <1>5, <1>6, <1>7 DEF ServiceClaims
<1> QED BY <1>1, <1>8, ClaimsOfOthers DEF Claims

\* The first step: the copy is of the live incarnation, or of an older one.
LEMMA ClaimsReconcile ==
  ASSUME InTimeAssumption, CacheOK, Claims, NEW s \in Services, Reconcile(s)
  PROVE  Claims'
<1> USE ServiceTypes
<1>1. /\ pc = "idle" /\ InTime(s) /\ queue' = queue \ {s}
      /\ \/ /\ svcCache[s] = NotFound \/ svcCache[s].deleting
            /\ pc' = pc
         \/ /\ svcCache[s] # NotFound
            /\ pc' = "listMCIs" /\ key' = s /\ owner' = svcCache[s].uid
      /\ UNCHANGED <<svcVars, refVars, exportVars, policyVars, svcEventChan>>
  BY DEF Reconcile
<1>2. ASSUME NEW t \in Services \ {s} PROVE ServiceClaims(t)'
  <2>1. Same(t)
    BY <1>1
    DEF Same, Busy, ReferTo, svcVars, refVars, exportVars, policyVars
  <2> QED BY <2>1, SameClaims DEF Claims
<1>3. ServiceClaims(s)'
  <2>1. /\ service' = service /\ svcWatch' = svcWatch
        /\ incarnations' = incarnations /\ svcCreated' = svcCreated
        /\ svcEventChan' = svcEventChan
        /\ export' = export /\ policy' = policy
        /\ exportWatch' = exportWatch /\ policyWatch' = policyWatch
        /\ ~Busy(s)
        /\ (Live(s)' <=> Live(s)) /\ (Unused(s)' <=> Unused(s))
        /\ \A u : Lives(s, u)' <=> Lives(s, u)
    BY <1>1 DEF svcVars, exportVars, policyVars, Busy, Live, Unused, Lives
  <2>2. ServiceClaims(s) /\ HistoryOK(s)
    BY DEF Claims, CacheOK, SvcOK
  <2>3. BoundsOK(s)'
    BY <2>1, <2>2 DEF ServiceClaims, BoundsOK
  <2>4. CASE (svcCache[s] = NotFound \/ svcCache[s].deleting) /\ pc' = pc
    <3>1. ~Busy(s)' /\ ~Quiet(s)'
      BY <1>1, <2>1, <2>4 DEF Busy, Quiet, Live
    <3> QED
      BY <2>1, <2>2, <2>3, <3>1
      DEF ServiceClaims, UnusedOK, ProvidedOK, WithdrawnOK, OwnerOK,
          OutputsKnown, BranchOK
  <2>5. CASE /\ svcCache[s] # NotFound
             /\ pc' = "listMCIs" /\ key' = s /\ owner' = svcCache[s].uid
    <3>1. Busy(s)'
      BY <2>5 DEF Busy
    <3>2. Live(s) /\ svcWatch[s] = <<>> => owner' = incarnations[s]
      BY <2>5
    <3>3. svcCache[s].uid \in Nat
      BY <2>5 DEF CacheOK, SvcOK, Svc
    <3>4. OwnerOK(s)'
      BY <2>1, <2>2, <2>5, <3>3 DEF OwnerOK, HistoryOK, Past, Older
    <3>5. UnusedOK(s)'
      BY <2>1, <2>2, <3>2 DEF ServiceClaims, UnusedOK
    <3>6. ProvidedOK(s)' /\ WithdrawnOK(s)'
      BY <3>1 DEF ProvidedOK, WithdrawnOK
    <3>7. OutputsKnown(s)'
      <4>1. /\ exportWatch[s] = <<>> /\ policyWatch[s] = <<>>
            /\ ~ExportOrphaned(s) /\ ~PolicyOrphaned(s)
        BY <1>1 DEF InTime, InTimeAssumption
      <4>2. ASSUME Lives(s, owner')
            PROVE  /\ export[s] \in {NotFound, owner'}
                   /\ policy[s] # NotFound => policy[s].owner = owner'
        BY <4>1, <4>2 DEF Lives, ExportOrphaned, PolicyOrphaned
      <4>3. Lives(s, owner)' => Lives(s, owner')
        BY <2>1 DEF Lives
      <4>4. pc' \notin {"listBindings", "getPolicyToDelete", "deletePolicy"}
                      \cup PolicySteps
        BY <2>5 DEF PolicySteps
      <4> QED BY <2>1, <4>1, <4>2, <4>3, <4>4 DEF OutputsKnown
    <3>8. BranchOK(s)'
      <4>1. Quiet(s)' => owner' = incarnations'[s]
        BY <2>1, <3>2 DEF Quiet
      <4>2. pc' \notin {"getMCS"} \cup EnsureSteps \cup RemoveSteps
                      \cup PolicySteps
        BY <2>5 DEF EnsureSteps, RemoveSteps, PolicySteps
      <4> QED BY <4>1, <4>2 DEF BranchOK
    <3> QED BY <2>3, <3>4, <3>5, <3>6, <3>7, <3>8 DEF ServiceClaims
  <2> QED BY <1>1, <2>4, <2>5
<1> QED BY <1>2, <1>3 DEF Claims

\* The worker goes on, and may have written or deleted the ServiceExport.
LEMMA ClaimsNextStep ==
  ASSUME CacheOK, Claims, pc # "idle", NEW s \in Services, key = s,
         UNCHANGED <<svcVars, refVars, policyVars, svcEventChan>>, OwnWrites(s),
         NEW step \in Steps \ {"idle"}, Goto(step),
         Lives(s, owner) =>
           /\ step \in BeforeExport =>
                exportWatch'[s] = <<>> /\ export'[s] \in {NotFound, owner}
           /\ step \in {"listBindings"} \cup PolicySteps => export'[s] = owner
           /\ step \in {"getPolicyToDelete", "deletePolicy"} =>
                export'[s] = NotFound,
         s \notin queue \cup svcEventChan =>
           /\ step = "getMCS" => ReferTo(s) = {}
           /\ step \in EnsureSteps => Wanted(s)
           /\ step \in RemoveSteps => ~Wanted(s)
           /\ step \in PolicySteps /\ getBindingClusterResults(s) # {} =>
                clusters' = getBindingClusterResults(s)
  PROVE  Claims'
<1>1. /\ pc' = step /\ owner' = owner /\ queue' = queue
      /\ Busy(s)
      /\ service' = service /\ incarnations' = incarnations
      /\ svcWatch' = svcWatch /\ svcCreated' = svcCreated
      /\ svcEventChan' = svcEventChan
      /\ policy' = policy /\ policyWatch' = policyWatch
      /\ ReferTo(s)' = ReferTo(s)
  BY DEF Goto, Busy, svcVars, refVars, policyVars, ReferTo
<1>2. /\ Wanted(s)' <=> Wanted(s)
      /\ Quiet(s)' <=> Quiet(s)
      /\ Lives(s, owner)' <=> Lives(s, owner)
      /\ getBindingClusterResults(s)' = getBindingClusterResults(s)
  BY <1>1 DEF refVars, Live, Wanted, HasLoadBalancer, Quiet, Lives,
     getBindingClusterResults
<1>3. ServiceClaims(s)
  BY DEF Claims
<1>4. OutputsKnown(s)'
  BY <1>1, <1>2, <1>3 DEF ServiceClaims, OutputsKnown
<1>5. BranchOK(s)'
  BY <1>1, <1>2, <1>3 DEF ServiceClaims, BranchOK
<1> QED BY <1>4, <1>5, ClaimsWentOn

\* A reconcile that has left the queue and the channel alone is of the live
\* incarnation, if the Service is quiet and needs something.
LEMMA Known ==
  ASSUME CacheOK, Claims, pc # "idle", NEW s \in Services, key = s
  PROVE  /\ Lives(s, owner) =>
              /\ pc \in BeforeExport =>
                   exportWatch[s] = <<>> /\ export[s] \in {NotFound, owner}
              /\ pc \in {"listBindings"} \cup PolicySteps => export[s] = owner
              /\ pc \in {"getPolicyToDelete", "deletePolicy"} =>
                   export[s] = NotFound
              /\ policyWatch[s] = <<>>
              /\ policy[s] # NotFound => policy[s].owner = owner
         /\ s \notin queue \cup svcEventChan =>
              /\ pc = "getMCS" => ReferTo(s) = {}
              /\ pc \in EnsureSteps => Wanted(s)
              /\ pc \in RemoveSteps => ~Wanted(s)
              /\ pc \in PolicySteps /\ getBindingClusterResults(s) # {} =>
                   clusters = getBindingClusterResults(s)
         /\ Quiet(s) /\ s \notin svcCreated /\ Wanted(s) =>
              owner = incarnations[s]
         /\ Quiet(s) => s \notin queue \cup svcEventChan
                        /\ (owner = incarnations[s] => Lives(s, owner))
         /\ Live(s) /\ owner # incarnations[s] => Unused(s)
         /\ owner \in UIDs
         /\ Busy(s)
<1>1. Busy(s) /\ owner \in UIDs
  BY AtWork DEF Busy
<1>2. ServiceClaims(s)
  BY DEF Claims
<1>3. Live(s) => Lives(s, incarnations[s])
  BY ServiceTypes DEF Live, Lives
<1> QED
  BY <1>1, <1>2, <1>3
  DEF ServiceClaims, OutputsKnown, BranchOK, UnusedOK, Quiet

\* Reads of the branch to take, and of the ServiceExport
LEMMA ClaimsRead ==
  ASSUME CacheOK, Claims,
         ListMCIs \/ GetMCS \/ GetExport \/ GetExportToDelete
  PROVE  Claims'
<1>1. Reads /\ UNCHANGED <<clusters, fresh>> /\ pc # "idle"
  BY DEF ListMCIs, GetMCS, GetExport, GetExportToDelete
<1>2. PICK s \in Services : key = s
  BY <1>1, AtWork
<1>3. /\ UNCHANGED <<svcVars, refVars, policyVars, svcEventChan>>
      /\ export' = export /\ exportWatch' = exportWatch /\ policy' = policy
      /\ OwnWrites(s)
  BY <1>1 DEF Reads, exportVars, policyVars, OwnWrites
<1>4. exportWatch[s] = <<>> => exportCache[s] = export[s]
  BY ServiceTypes
<1>5. CASE ListMCIs
  <2>1. PICK step \in {"getExport", "getMCS"} :
          /\ Goto(step)
          /\ step = "getExport" => ReferTo(s) # {}
          /\ step = "getMCS" => ReferTo(s) = {}
    BY <1>2, <1>5 DEF ListMCIs
  <2>2. /\ pc = "listMCIs" /\ step \in Steps \ {"idle"}
        /\ pc \in BeforeExport /\ step \in BeforeExport
        /\ step \notin RemoveSteps \cup PolicySteps
        /\ step \notin {"listBindings", "getPolicyToDelete", "deletePolicy"}
        /\ step \in EnsureSteps => Wanted(s)
    BY <1>5, <2>1 DEF ListMCIs, Steps, EnsureSteps, RemoveSteps, BeforeExport,
       PolicySteps, Wanted
  <2> QED BY <1>1, <1>2, <1>3, <2>1, <2>2, Known, ClaimsNextStep
<1>6. CASE GetMCS
  <2>1. PICK step \in {"getExport", "getExportToDelete"} :
          /\ Goto(step)
          /\ step = "getExport" <=> HasLoadBalancer(s)
    BY <1>2, <1>6 DEF GetMCS, HasLoadBalancer
  <2>2. /\ pc = "getMCS" /\ step \in Steps \ {"idle"}
        /\ pc \in BeforeExport /\ step \in BeforeExport
        /\ step \notin PolicySteps
        /\ step \notin {"listBindings", "getPolicyToDelete", "deletePolicy",
                        "getMCS"}
        /\ step \in EnsureSteps => HasLoadBalancer(s)
        /\ step \in RemoveSteps => ~HasLoadBalancer(s)
    BY <1>6, <2>1 DEF GetMCS, Steps, EnsureSteps, RemoveSteps, BeforeExport,
       PolicySteps
  <2>3. s \notin queue \cup svcEventChan =>
          /\ step \in EnsureSteps => Wanted(s)
          /\ step \in RemoveSteps => ~Wanted(s)
    BY <1>1, <1>2, <2>2, Known DEF Wanted
  <2> QED BY <1>1, <1>2, <1>3, <2>1, <2>2, <2>3, Known, ClaimsNextStep
<1>7. CASE GetExport
  <2>1. PICK step \in {"createExport", "listBindings"} :
          /\ Goto(step)
          /\ step = "createExport" <=> exportCache[s] = NotFound
    BY <1>2, <1>7 DEF GetExport
  <2>2. /\ pc = "getExport" /\ step \in Steps \ {"idle"}
        /\ pc \in BeforeExport /\ pc \in EnsureSteps
        /\ step \notin PolicySteps \cup RemoveSteps
        /\ step \notin {"getPolicyToDelete", "deletePolicy", "getMCS"}
        /\ step \in BeforeExport <=> step = "createExport"
    BY <1>7, <2>1 DEF GetExport, Steps, EnsureSteps, RemoveSteps, BeforeExport,
       PolicySteps
  <2>3. Lives(s, owner) /\ step = "listBindings" => export[s] = owner
    BY <1>1, <1>2, <1>4, <2>1, <2>2, Known
  <2> QED BY <1>1, <1>2, <1>3, <2>1, <2>2, <2>3, Known, ClaimsNextStep
<1>8. CASE GetExportToDelete
  <2>1. PICK step \in {"getPolicyToDelete", "deleteExport"} :
          /\ Goto(step)
          /\ step = "getPolicyToDelete" <=> exportCache[s] = NotFound
    BY <1>2, <1>8 DEF GetExportToDelete
  <2>2. /\ pc = "getExportToDelete" /\ step \in Steps \ {"idle"}
        /\ pc \in BeforeExport /\ pc \in RemoveSteps
        /\ step \notin PolicySteps \cup EnsureSteps
        /\ step \notin {"listBindings", "deletePolicy", "getMCS"}
        /\ step \in BeforeExport <=> step = "deleteExport"
    BY <1>8, <2>1 DEF GetExportToDelete, Steps, EnsureSteps, RemoveSteps,
       BeforeExport, PolicySteps
  <2>3. Lives(s, owner) /\ step = "getPolicyToDelete" => export[s] = NotFound
    BY <1>1, <1>2, <1>4, <2>1, <2>2, Known
  <2> QED BY <1>1, <1>2, <1>3, <2>1, <2>2, <2>3, Known, ClaimsNextStep
<1> QED BY <1>5, <1>6, <1>7, <1>8

\* Whatever is put back into the queue needs no more claims.
LEMMA ClaimsRequeue ==
  ASSUME CacheOK, Claims, pc # "idle", NEW s \in Services, key = s,
         OwnWrites(s), UNCHANGED <<svcVars, refVars, svcEventChan>>, Requeue
  PROVE  Claims'
  BY ClaimsReturned DEF Requeue

LEMMA ClaimsFault ==
  ASSUME CacheOK, Claims, Rejected \/ CallFails
  PROVE  Claims'
<1>1. pc # "idle" /\ Requeue /\ Reads
  BY DEF Rejected, CallFails
<1>2. PICK s \in Services : key = s
  BY <1>1, AtWork
<1>3. OwnWrites(s)
  BY <1>1 DEF Reads, exportVars, policyVars, OwnWrites
<1> QED BY <1>1, <1>2, <1>3, ClaimsRequeue DEF Reads

\* The ServiceExport is made or deleted.
LEMMA ClaimsExport ==
  ASSUME CacheOK, Claims, NEW ok \in BOOLEAN,
         CreateExport(ok) \/ DeleteExport(ok)
  PROVE  Claims'
<1>1. pc \in {"createExport", "deleteExport"}
      /\ UNCHANGED <<svcVars, refVars, policyVars, svcEventChan>>
  BY DEF CreateExport, DeleteExport
<1>2. PICK s \in Services : key = s
  BY <1>1, AtWork
<1>3. PICK step \in {"listBindings", "getPolicyToDelete"} :
        /\ step = "listBindings" =>
             pc = "createExport" /\ Commit(s, owner)
        /\ step = "getPolicyToDelete" =>
             /\ pc = "deleteExport"
             /\ \/ Commit(s, NotFound)
                \/ export[s] = NotFound /\ UNCHANGED exportVars
        /\ Goto(step) \/ Requeue
  <2>1. CASE CreateExport(ok)
    <3>1. /\ pc = "createExport" /\ Commit(key, owner)
          /\ Goto("listBindings") \/ Requeue
      BY <2>1 DEF CreateExport, createServiceExportTemplate
    <3> QED BY <1>2, <3>1
  <2>2. CASE DeleteExport(ok)
    <3>1. /\ pc = "deleteExport"
          /\ \/ Commit(key, NotFound)
             \/ export[key] = NotFound /\ UNCHANGED exportVars
          /\ Goto("getPolicyToDelete") \/ Requeue
      BY <2>2 DEF DeleteExport
    <3> QED BY <1>2, <3>1
  <2> QED BY <2>1, <2>2
<1>4. /\ step = "listBindings" => export'[s] = owner
      /\ step = "getPolicyToDelete" => export'[s] = NotFound
      /\ \A t \in Services \ {s} : export'[t] = export[t]
  <2>1. owner \in UIDs \cup {NotFound} /\ ExportOK
    BY <1>1, AtWork DEF CacheOK
  <2> QED BY <1>3, <2>1, ExportWritten DEF exportVars
<1>5. OwnWrites(s)
  BY <1>1, <1>3, <1>4 DEF policyVars, OwnWrites
<1>6. CASE Requeue
  BY <1>1, <1>2, <1>5, <1>6, ClaimsRequeue DEF policyVars
<1>7. CASE Goto(step)
  <2>1. /\ step \in Steps \ {"idle"}
        /\ step \notin BeforeExport \cup PolicySteps
        /\ step \notin {"getMCS", "deletePolicy"}
        /\ step \in EnsureSteps => pc \in EnsureSteps
        /\ step \in RemoveSteps => pc \in RemoveSteps
    BY <1>3 DEF Steps, EnsureSteps, RemoveSteps, BeforeExport, PolicySteps
  <2> QED BY <1>1, <1>2, <1>4, <1>5, <1>7, <2>1, Known, ClaimsNextStep
<1> QED BY <1>3, <1>6, <1>7

\* The clusters that the policy has to name are read.
LEMMA ClaimsBindings ==
  ASSUME CacheOK, Claims, ListBindings
  PROVE  Claims'
<1>1. pc = "listBindings" /\ Reads
  BY DEF ListBindings
<1>2. PICK s \in Services : key = s
  BY <1>1, AtWork
<1>3. /\ UNCHANGED <<svcVars, refVars, policyVars, svcEventChan>>
      /\ export' = export /\ policy' = policy
      /\ OwnWrites(s)
  BY <1>1 DEF Reads, exportVars, policyVars, OwnWrites
<1>4. \/ Return /\ queue' = queue /\ getBindingClusterResults(s) = {}
      \/ Goto("getPolicy") /\ clusters' = getBindingClusterResults(s)
  BY <1>2 DEF ListBindings, Done
<1>5. /\ pc \in EnsureSteps /\ "getPolicy" \in Steps \ {"idle"}
      /\ "getPolicy" \in PolicySteps \cap EnsureSteps
      /\ "getPolicy" \notin BeforeExport \cup RemoveSteps
  BY <1>1 DEF Steps, EnsureSteps, RemoveSteps, BeforeExport, PolicySteps
<1>6. CASE Return /\ queue' = queue /\ getBindingClusterResults(s) = {}
  <2>1. Finished(s)
    BY <1>1, <1>2, <1>3, <1>5, <1>6, Known DEF Finished
  <2> QED BY <1>1, <1>2, <1>3, <1>6, <2>1, ClaimsReturned
<1>7. CASE Goto("getPolicy") /\ clusters' = getBindingClusterResults(s)
  BY <1>1, <1>2, <1>3, <1>5, <1>7, Known, ClaimsNextStep
<1> QED BY <1>4, <1>6, <1>7

\* The policy is read.
LEMMA ClaimsPolicyRead ==
  ASSUME CacheOK, Claims, GetPolicy \/ GetPolicyToDelete
  PROVE  Claims'
<1>1. pc \in {"getPolicy", "getPolicyToDelete"} /\ Reads
  BY DEF GetPolicy, GetPolicyToDelete
<1>2. PICK s \in Services : key = s
  BY <1>1, AtWork
<1>3. /\ UNCHANGED <<svcVars, refVars, policyVars, svcEventChan>>
      /\ export' = export /\ policy' = policy
      /\ OwnWrites(s)
  BY <1>1 DEF Reads, exportVars, policyVars, OwnWrites
<1>4. /\ policyWatch[s] = <<>> => policyCache[s] = policy[s]
      /\ policy[s] \in Policy \cup {NotFound}
  BY ServiceTypes
<1>5. CASE GetPolicy
  <2>1. /\ pc = "getPolicy"
        /\ \/ /\ Return /\ queue' = queue
              /\ policyCache[s] # NotFound /\ policyCache[s].clusters = clusters
           \/ Goto("createPolicy") /\ clusters' = clusters
           \/ Goto("updatePolicy") /\ clusters' = clusters
    BY <1>2, <1>5 DEF GetPolicy, PolicyStep, Done
  <2>2. pc \in EnsureSteps /\ pc \in PolicySteps
    BY <2>1 DEF EnsureSteps, PolicySteps
  <2>3. CASE /\ Return /\ queue' = queue
             /\ policyCache[s] # NotFound /\ policyCache[s].clusters = clusters
    <3>1. \A p \in Policy : p = [owner |-> p.owner, clusters |-> p.clusters]
      BY DEF Policy
    <3>2. Finished(s)
      BY <1>1, <1>2, <1>3, <1>4, <2>2, <2>3, <3>1, Known DEF Finished
    <3> QED BY <1>1, <1>2, <1>3, <2>3, <3>2, ClaimsReturned
  <2>4. ASSUME NEW step \in {"createPolicy", "updatePolicy"},
               Goto(step), clusters' = clusters
        PROVE  Claims'
    <3>1. /\ step \in Steps \ {"idle"} /\ step \in PolicySteps
          /\ step # "getMCS"
          /\ step \notin BeforeExport \cup RemoveSteps
          /\ step \notin {"getPolicyToDelete", "deletePolicy"}
      BY DEF Steps, EnsureSteps, RemoveSteps, BeforeExport, PolicySteps
    <3> QED BY <1>1, <1>2, <1>3, <2>2, <2>4, <3>1, Known, ClaimsNextStep
  <2> QED BY <2>1, <2>3, <2>4
<1>6. CASE GetPolicyToDelete
  <2>1. /\ pc = "getPolicyToDelete"
        /\ \/ Return /\ queue' = queue /\ policyCache[s] = NotFound
           \/ Goto("deletePolicy")
    BY <1>2, <1>6 DEF GetPolicyToDelete, Done
  <2>2. /\ pc \in RemoveSteps /\ "deletePolicy" \in Steps \ {"idle"}
        /\ "deletePolicy" # "getMCS" /\ "deletePolicy" \in RemoveSteps
        /\ "deletePolicy" \notin BeforeExport \cup EnsureSteps \cup PolicySteps
    BY <2>1 DEF Steps, EnsureSteps, RemoveSteps, BeforeExport, PolicySteps
  <2>3. CASE Return /\ queue' = queue /\ policyCache[s] = NotFound
    <3>1. Finished(s)
      BY <1>1, <1>2, <1>3, <1>4, <2>1, <2>2, <2>3, Known, ServiceTypes
      DEF Finished, Unused, Quiet
    <3> QED BY <1>1, <1>2, <1>3, <2>3, <3>1, ClaimsReturned
  <2>4. CASE Goto("deletePolicy")
    BY <1>1, <1>2, <1>3, <2>1, <2>2, <2>4, Known, ClaimsNextStep
  <2> QED BY <2>1, <2>3, <2>4
<1> QED BY <1>5, <1>6

\* The policy is made, brought up to date or deleted: the last step.
LEMMA ClaimsPolicy ==
  ASSUME CacheOK, Claims, NEW ok \in BOOLEAN,
         CreatePolicy(ok) \/ UpdatePolicy(ok) \/ DeletePolicy(ok)
  PROVE  Claims'
<1>1. /\ pc \in {"createPolicy", "updatePolicy", "deletePolicy"}
      /\ UNCHANGED <<svcVars, refVars, exportVars, svcEventChan>>
      /\ Return
      /\ queue' = queue \/ queue' = queue \cup {key}
  BY DEF CreatePolicy, UpdatePolicy, DeletePolicy, Done, Requeue
<1>2. PICK s \in Services : key = s
  BY <1>1, AtWork
<1>3. /\ policy[s] \in Policy \cup {NotFound}
      /\ policy[s] \in Policy => policy[s] # NotFound
      /\ clusters \subseteq Clusters /\ owner \in UIDs
      /\ PolicyOK
  BY <1>1, AtWork, ServiceTypes DEF CacheOK
<1>4. /\ \A t \in Services \ {s} : policy'[t] = policy[t]
      /\ pc = "deletePolicy" => policy'[s] = NotFound
      /\ pc # "deletePolicy" =>
           /\ policy'[s] \in Policy
           /\ policy'[s].clusters = clusters
           /\ \/ policy'[s].owner = owner
              \/ policy[s] # NotFound /\ policy'[s].owner = policy[s].owner
  <2>1. CASE CreatePolicy(ok)
    <3> DEFINE p == [owner |-> owner, clusters |-> clusters]
    <3>1. p \in Policy /\ p.owner = owner /\ p.clusters = clusters
      BY <1>3 DEF Policy
    <3>2. pc = "createPolicy" /\ CommitPolicy(s, p)
      BY <1>2, <2>1 DEF CreatePolicy, createPropagationPolicyTemplate
    <3> HIDE DEF p
    <3> QED BY <1>3, <3>1, <3>2, PolicyWritten
  <2>2. CASE UpdatePolicy(ok)
    <3> DEFINE p == [policy[s] EXCEPT !.clusters = clusters]
    <3>1. pc = "updatePolicy" /\ policy[s] # NotFound /\ CommitPolicy(s, p)
      BY <1>2, <2>2 DEF UpdatePolicy, CacheOK, CopyOK
    <3>2. p \in Policy /\ p.owner = policy[s].owner /\ p.clusters = clusters
      BY <1>3, <3>1 DEF Policy
    <3> HIDE DEF p
    <3> QED BY <1>3, <3>1, <3>2, PolicyWritten
  <2>3. CASE DeletePolicy(ok)
    <3>1. /\ pc = "deletePolicy"
          /\ \/ CommitPolicy(s, NotFound)
             \/ policy[s] = NotFound /\ UNCHANGED policyVars
      BY <1>2, <2>3 DEF DeletePolicy
    <3> QED BY <1>3, <3>1, PolicyWritten DEF policyVars
  <2> QED BY <2>1, <2>2, <2>3
<1>5. export' = export /\ OwnWrites(s)
  BY <1>1, <1>3, <1>4 DEF exportVars, OwnWrites
<1>6. Finished(s)
  <2>1. /\ pc = "deletePolicy" => pc \in RemoveSteps
        /\ pc # "deletePolicy" => pc \in EnsureSteps /\ pc \in PolicySteps
    BY <1>1 DEF EnsureSteps, RemoveSteps, PolicySteps
  <2>2. \A p \in Policy : p = [owner |-> p.owner, clusters |-> p.clusters]
    BY DEF Policy
  <2>3. ASSUME Quiet(s), Wanted(s), s \notin svcCreated
        PROVE  /\ export[s] = incarnations[s]
               /\ getBindingClusterResults(s) # {} =>
                    policy'[s] = [owner |-> incarnations[s],
                                  clusters |-> getBindingClusterResults(s)]
    <3>1. /\ pc # "deletePolicy" /\ owner = incarnations[s]
          /\ export[s] = owner
          /\ policy[s] # NotFound => policy[s].owner = owner
          /\ getBindingClusterResults(s) # {} =>
               clusters = getBindingClusterResults(s)
      BY <1>1, <1>2, <2>1, <2>3, Known
    <3> QED BY <1>4, <2>2, <3>1
  <2>4. ASSUME Quiet(s), ~Wanted(s)
        PROVE  /\ export[s] # incarnations[s]
               /\ policy'[s] # NotFound => policy'[s].owner # incarnations[s]
    <3>1. /\ pc = "deletePolicy"
          /\ owner = incarnations[s] => export[s] = NotFound
          /\ owner # incarnations[s] => Unused(s)
          /\ incarnations[s] # NotFound
      BY <1>1, <1>2, <2>1, <2>4, Known, ServiceTypes DEF Quiet
    <3> QED BY <1>4, <3>1 DEF Unused
  <2> QED BY <1>5, <2>3, <2>4 DEF Finished
<1> QED BY <1>1, <1>2, <1>5, <1>6, ClaimsReturned

\* After a restart every Service is in the list of new ones, and so is, in the
\* channel, every one that has a binding.
LEMMA ClaimsRestart ==
  ASSUME Claims, Restart
  PROVE  Claims'
<1> SUFFICES ASSUME NEW s \in Services PROVE ServiceClaims(s)'
  BY DEF Claims
<1>1. /\ service' = service /\ incarnations' = incarnations
      /\ export' = export /\ policy' = policy
      /\ rb' = rb /\ svcWatch'[s] = <<>> /\ pc' = "idle"
      /\ Live(s) => s \in svcCreated'
      /\ rb[s] # NotFound => s \in svcEventChan'
  BY DEF Restart, refVars, NoEvents, Live, Return, rbNotifies
<1>2. ~Busy(s)' /\ (Live(s)' <=> Live(s))
  BY <1>1 DEF Busy, Live
<1>3. ServiceClaims(s)
  BY DEF Claims
<1> QED
  BY <1>1, <1>2, <1>3
  DEF ServiceClaims, BoundsOK, UnusedOK, ProvidedOK, WithdrawnOK, OwnerOK,
      OutputsKnown, BranchOK, Quiet
-----------------------------------------------------------------------------
LEMMA ClaimsStutter == Claims /\ UNCHANGED vars => Claims'
<1> SUFFICES ASSUME Claims, UNCHANGED vars, NEW s \in Services
             PROVE  ServiceClaims(s)'
  BY DEF Claims
<1>1. Same(s)
  BY DEF Same, Busy, ReferTo, vars, svcVars, refVars, exportVars, policyVars,
     workVars
<1> QED BY <1>1, SameClaims DEF Claims

LEMMA ClaimsStep ==
  ASSUME InTimeAssumption, OurMCIs, CacheOK, Claims, [Next]_vars
  PROVE  Claims'
<1>1. CASE UserStep
  BY <1>1, ClaimsServiceWritten, ClaimsReferences DEF UserStep
<1>2. ASSUME NEW s \in Services, HandlerStep(s) PROVE Claims'
  BY <1>2, ClaimsServiceObserved, ClaimsEnqueue, ClaimsOutputs DEF HandlerStep
<1>3. CASE WorkStep
  BY <1>3, ClaimsReconcile, ClaimsRead, ClaimsExport, ClaimsBindings,
     ClaimsPolicyRead, ClaimsPolicy, ClaimsFault DEF WorkStep
<1>4. CASE FaultStep
  BY <1>4, ClaimsExport, ClaimsPolicy, ClaimsFault, ClaimsServiceObserved,
     ClaimsRestart DEF FaultStep
<1>5. CASE UNCHANGED vars
  BY <1>5, ClaimsStutter
<1> QED BY <1>1, <1>2, <1>3, <1>4, <1>5 DEF Next

\* What IInv says of a Service that nothing is under way for
LEMMA NothingForgotten ==
  ASSUME IInv, NEW s \in Services, Live(s), ~Pending(s)
  PROVE  /\ Needed(s) =>
              /\ export[s] = service[s].uid
              /\ Scheduled(s) # {} => Right(s)
         /\ Unneeded(s) /\ rb[s] # NotFound =>
              /\ export[s] = NotFound \/ ExportOrphaned(s)
              /\ policy[s] = NotFound \/ PolicyOrphaned(s)
<1>1. CacheOK /\ ServiceClaims(s)
  BY DEF IInv, Claims
<1>2. Quiet(s) /\ s \notin svcCreated /\ ~Busy(s)
  BY DEF Pending, Quiet, Busy
<1>3. service[s].uid = incarnations[s]
  BY <1>1, ServiceTypes
<1>4. Needed(s) => Wanted(s)
  BY DEF Needed, Wanted
<1>5. Unneeded(s) => ~Wanted(s)
  BY DEF Unneeded, Wanted
<1>6. Scheduled(s) = getBindingClusterResults(s)
  <2>1. rb[s] \in RBSpec \cup {NotFound}
    BY <1>1, ConstantsAssumption DEF CacheOK, RefOK
  <2>2. rb[s] # NotFound =>
          rb[s].clusters \subseteq Clusters /\ rb[s].requiredBy \subseteq Clusters
    BY <2>1 DEF RBSpec
  <2> QED
    BY <2>2 DEF Scheduled, getBindingClusterResults, getClusterResults
<1>7. Unused(s) => /\ export[s] = NotFound \/ ExportOrphaned(s)
                   /\ policy[s] = NotFound \/ PolicyOrphaned(s)
  BY <1>3 DEF Unused, ExportOrphaned, PolicyOrphaned, Lives
<1> QED
  BY <1>1, <1>2, <1>3, <1>4, <1>5, <1>6, <1>7
  DEF ServiceClaims, ProvidedOK, WithdrawnOK, Right

LEMMA Inductive ==
  ASSUME InTimeAssumption, OurMCIs
  PROVE  Spec => []IInv
<1>1. Init => IInv
  BY CacheInit, ClaimsInit DEF IInv
<1>2. IInv /\ [Next]_vars => IInv'
  BY CacheStep, ClaimsStep DEF IInv
<1> QED BY <1>1, <1>2, PTL DEF Spec

\* "1. make sure serviceExport exist"
\* (serviceexport_propagation_controller.go:96), for every number of Services,
\* MCIs, incarnations and waiting events.
THEOREM ExportKept ==
  ASSUME InTimeAssumption, OurMCIs
  PROVE  Spec => []ExportNotForgotten
<1>1. IInv => ExportNotForgotten
  BY NothingForgotten DEF ExportNotForgotten
<1> QED BY <1>1, Inductive, PTL

\* "6. propagationPolicy already exist, just update it"
\* (serviceexport_propagation_controller.go:147): whatever order bindings,
\* MCIs and MCSs change in, the policy names the clusters of the last binding.
THEOREM PolicyKept ==
  ASSUME InTimeAssumption, OurMCIs
  PROVE  Spec => []PolicyNotForgotten
<1>1. IInv => PolicyNotForgotten
  BY NothingForgotten DEF PolicyNotForgotten
<1> QED BY <1>1, Inductive, PTL

\* removeServiceExport (serviceexport_propagation_controller.go): what a live
\* Service with a binding no longer needs is withdrawn.
THEOREM WithdrawalKept ==
  ASSUME InTimeAssumption, OurMCIs
  PROVE  Spec => []WithdrawalNotForgotten
<1>1. IInv => WithdrawalNotForgotten
  BY NothingForgotten DEF WithdrawalNotForgotten
<1> QED BY <1>1, Inductive, PTL
=============================================================================
