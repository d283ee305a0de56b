---------------------------- MODULE ChainInfoProofs ---------------------------
(* For any number of requests, any time to live and any time that get_info   *)
(* takes: how old the chain information of an answer can be, and what the    *)
(* health of the indexer then means.                                         *)
EXTENDS ChainInfo, TLAPS

Infos == [kind : {"null", "value", "blank"}, head : Nat]
Entries == [info : Infos, age : 0 .. MaxAge, held : Nat]

TypeOK ==
    /\ head \in Nat \ {0}
    /\ indexed \in Nat
    /\ api \in {"up", "failing", "error"}
    /\ cache \in Entries
    /\ req \in [Requests -> [pc : {"idle", "asked", "sent", "served", "answered"},
                             entry : Entries]]

\* What an entry says was so, as many ticks ago as its age says.
Truthful(e) ==
    e.info.kind = "value" =>
        /\ e.info.head \in 1 .. head
        /\ e.age < MaxAge => head <= e.info.head + e.age

\* A call that is answered has waited at least as long as its answer is old,
\* and a request has nothing to say before that.
RequestInv(r) ==
    LET e == req[r].entry IN
    /\ Truthful(e)
    /\ req[r].pc \in {"idle", "asked", "sent"} => e.info.kind = "null"
    /\ Waiting(r) => e.held <= Latency
    /\ req[r].pc = "served" => e.age <= e.held
    /\ Answered(r) /\ e.info.kind = "value" => head <= e.info.head + e.age

\* A cached answer is older than its time in the cache by one call at most.
IInv ==
    /\ TypeOK
    /\ Truthful(cache)
    /\ cache.held < TTL => cache.age <= cache.held + Latency
    /\ \A r \in Requests : RequestInv(r)

-----------------------------------------------------------------------------
(* The invariant is inductive.                                               *)

LEMMA Initially == Init => IInv
BY ChainInfoAssumption
DEF Init, IInv, TypeOK, Entries, Infos, Entry, Empty, Null, Idle, MaxAge, RequestInv,
    Truthful, Waiting, Answered

LEMMA Ageing ==
    ASSUME NEW e \in Entries, NEW most \in Nat
    PROVE  /\ Older(e, most) \in Entries
           /\ Older(e, most).info = e.info
           /\ Older(e, most).age = IF e.age < MaxAge THEN e.age + 1 ELSE e.age
           /\ Older(e, most).held = IF e.held < most THEN e.held + 1 ELSE e.held
BY ChainInfoAssumption DEF Older, Entry, Entries, MaxAge

\* A tick: an entry is a tick older and the chain a block longer at most.
LEMMA Clock ==
    ASSUME IInv, Tick
    PROVE  IInv'
<1> USE ChainInfoAssumption
<1>1. head' \in {head, head + 1} /\ head' \in Nat \ {0}
  BY DEF Tick, IInv, TypeOK
<1>2. ASSUME NEW e \in Entries, NEW most \in Nat, Truthful(e)
      PROVE  Truthful(Older(e, most))'
  <2>1. /\ Older(e, most).info = e.info
        /\ Older(e, most).age = IF e.age < MaxAge THEN e.age + 1 ELSE e.age
    BY Ageing
  <2>2. e.info.head \in Nat /\ e.age \in Nat /\ head \in Nat /\ MaxAge \in Nat
    BY DEF Entries, Infos, IInv, TypeOK, MaxAge
  <2> QED
    BY <1>1, <1>2, <2>1, <2>2 DEF Truthful, Older, Entry
<1>3. TypeOK'
  BY <1>1, Ageing DEF IInv, TypeOK, Tick
<1>4. /\ Truthful(cache)'
      /\ cache'.held < TTL => cache'.age <= cache'.held + Latency
  <2>1. cache' = Older(cache, TTL) /\ cache \in Entries /\ TTL \in Nat
    BY DEF Tick, IInv, TypeOK
  <2>2. Truthful(cache)'
    BY <2>1, <1>2 DEF IInv, Truthful
  <2> QED
    BY <2>1, <2>2, Ageing DEF IInv, Entries, MaxAge
<1>5. ASSUME NEW r \in Requests
      PROVE  RequestInv(r)'
  <2> DEFINE e == req[r].entry
  <2>1. e \in Entries /\ Latency \in Nat /\ Truthful(e)
    BY DEF IInv, TypeOK, RequestInv
  <2>2. CASE req[r].pc = "idle"
    <3>1. req'[r] = req[r]
      BY <2>2 DEF Tick
    <3> QED
      BY <2>2, <3>1 DEF IInv, RequestInv, Truthful, Waiting, Answered
  <2>3. CASE req[r].pc # "idle"
    <3>1. req'[r] = [pc |-> req[r].pc, entry |-> Older(e, Latency)]
      BY <2>3 DEF Tick
    <3>2. Truthful(req[r].entry)'
      BY <2>1, <3>1, <1>2 DEF Truthful
    <3>3. /\ Older(e, Latency).info = e.info
          /\ Older(e, Latency).age = IF e.age < MaxAge THEN e.age + 1 ELSE e.age
          /\ Older(e, Latency).held = IF e.held < Latency THEN e.held + 1 ELSE e.held
      BY <2>1, Ageing
    <3>4. Waiting(r)' => req'[r].entry.held <= Latency
      BY <2>1, <3>1, <3>3 DEF Tick, Waiting, Entries
    <3>5. req'[r].pc = "served" => req'[r].entry.age <= req'[r].entry.held
      BY <2>1, <3>1, <3>3 DEF Tick, Waiting, Entries, IInv, RequestInv, MaxAge
    <3>6. Answered(r)' /\ e.info.kind = "value" =>
            head' <= e.info.head + req'[r].entry.age
      BY <1>1, <2>1, <3>1, <3>3 DEF Tick, Answered, Entries, Infos, IInv, RequestInv, TypeOK, MaxAge
    <3> QED
      BY <3>1, <3>2, <3>3, <3>4, <3>5, <3>6 DEF IInv, RequestInv, Answered
  <2> QED
    BY <2>2, <2>3
<1> QED
  BY <1>3, <1>4, <1>5 DEF IInv

\* The steps of a request change its own entry and, in Store, the cache.
LEMMA Requesting ==
    ASSUME IInv, NEW q \in Requests,
           Arrive(q) \/ ReadCache(q) \/ GetInfo(q) \/ Store(q) \/ Respond(q)
    PROVE  IInv'
<1> USE ChainInfoAssumption
<1>1. UNCHANGED <<head, indexed, api>>
  BY DEF Arrive, ReadCache, GetInfo, Store, Respond
<1>2. /\ cache.info \in Infos /\ cache.age \in 0 .. MaxAge /\ cache.held \in Nat
      /\ req[q].entry.info \in Infos
      /\ req[q].entry.age \in 0 .. MaxAge /\ req[q].entry.held \in Nat
      /\ head \in Nat \ {0}
  BY DEF IInv, TypeOK, Entries
<1>3. Empty \in Entries /\ Truthful(Empty)' /\ Empty.info.kind = "null"
  BY DEF Empty, Entry, Null, Entries, Infos, Truthful, MaxAge
<1>4. ASSUME NEW pc \in {"idle", "asked", "sent", "served", "answered"},
             NEW entry \in Entries, Goes(q, pc, entry),
             cache' \in Entries, Truthful(cache)',
             cache'.held < TTL => cache'.age <= cache'.held + Latency,
             Truthful(entry),
             pc \in {"idle", "asked", "sent"} => entry.info.kind = "null",
             pc \in {"sent", "served"} => entry.held <= Latency,
             pc = "served" => entry.age <= entry.held,
             pc = "answered" /\ entry.info.kind = "value" => head <= entry.info.head + entry.age
      PROVE  IInv'
  <2>1. TypeOK'
    BY <1>1, <1>4 DEF IInv, TypeOK, Goes
  <2>2. ASSUME NEW r \in Requests
        PROVE  RequestInv(r)'
    <3>1. CASE r = q
      <4>1. req'[r] = [pc |-> pc, entry |-> entry]
        BY <1>4, <3>1 DEF Goes, IInv, TypeOK
      <4> QED
        BY <1>1, <1>4, <4>1 DEF RequestInv, Truthful, Waiting, Answered
    <3>2. CASE r # q
      <4>1. req'[r] = req[r]
        BY <1>4, <3>2 DEF Goes, IInv, TypeOK
      <4> QED
        BY <1>1, <4>1 DEF IInv, RequestInv, Truthful, Waiting, Answered
    <3> QED
      BY <3>1, <3>2
  <2> QED
    BY <1>4, <2>1, <2>2 DEF IInv
<1>5. CASE Arrive(q)
  BY <1>3, <1>4, <1>5 DEF Arrive, IInv, TypeOK, Truthful, Entries
<1>6. /\ Entry(Null, MaxAge, 0) \in Entries
      /\ Entry(Null, MaxAge, 0).info.kind = "null"
      /\ Entry(Null, MaxAge, 0).held = 0
  BY DEF Entry, Null, Entries, Infos, MaxAge
<1>7. /\ cache \in Entries /\ req[q].entry \in Entries
      /\ Truthful(cache) /\ RequestInv(q)
      /\ cache.held < TTL => cache.age <= cache.held + Latency
  BY DEF IInv, TypeOK
<1>8. UNCHANGED cache =>
        /\ cache' \in Entries /\ Truthful(cache)'
        /\ cache'.held < TTL => cache'.age <= cache'.held + Latency
  BY <1>1, <1>7 DEF Truthful
<1>9. CASE ReadCache(q)
  <2>1. UNCHANGED cache
    BY <1>9 DEF ReadCache
  <2>2. CASE cache.held < TTL
    <3>1. Goes(q, "answered", cache)
      BY <1>9, <2>2 DEF ReadCache
    <3>2. cache.age < MaxAge
      BY <1>2, <1>7, <2>2 DEF MaxAge
    <3>3. cache.info.kind = "value" => head <= cache.info.head + cache.age
      BY <1>7, <3>2 DEF Truthful
    <3> QED
      BY <1>4, <1>7, <1>8, <2>1, <3>1, <3>3
  <2>3. CASE ~(cache.held < TTL)
    <3>1. Goes(q, "sent", Entry(Null, MaxAge, 0))
      BY <1>9, <2>3 DEF ReadCache
    <3>2. Truthful(Entry(Null, MaxAge, 0))
      BY <1>6 DEF Truthful
    <3> QED
      BY <1>4, <1>6, <1>8, <2>1, <3>1, <3>2
  <2> QED
    BY <2>2, <2>3
<1>10. CASE GetInfo(q)
  <2>1. PICK info \in Infos :
          /\ Goes(q, "served", Entry(info, 0, req[q].entry.held))
          /\ info.kind = "value" => info.head = head
    <3>1. /\ Null \in Infos /\ Null.kind = "null"
          /\ [kind |-> "value", head |-> head] \in Infos
          /\ [kind |-> "blank", head |-> 0] \in Infos
      BY <1>2 DEF Null, Infos
    <3>2. api \in {"up", "failing", "error"}
      BY DEF IInv, TypeOK
    <3>3. CASE api = "up"
      <4>1. Goes(q, "served", Entry([kind |-> "value", head |-> head], 0, req[q].entry.held))
        BY <1>10, <3>3 DEF GetInfo
      <4> QED
        BY <3>1, <4>1
    <3>4. CASE api = "failing"
      <4>1. Goes(q, "served", Entry(Null, 0, req[q].entry.held))
        BY <1>10, <3>4 DEF GetInfo
      <4> QED
        BY <3>1, <4>1
    <3>5. CASE api = "error"
      <4>1. Goes(q, "served", Entry([kind |-> "blank", head |-> 0], 0, req[q].entry.held))
        BY <1>10, <3>5 DEF GetInfo
      <4> QED
        BY <3>1, <4>1
    <3> QED
      BY <3>2, <3>3, <3>4, <3>5
  <2> DEFINE e == Entry(info, 0, req[q].entry.held)
  <2>2. /\ e \in Entries /\ e.info = info /\ e.age = 0 /\ e.held = req[q].entry.held
    BY <1>2 DEF Entry, Entries, MaxAge
  <2>3. Truthful(e)
    BY <1>2, <2>1, <2>2 DEF Truthful
  <2>4. e.held <= Latency /\ e.age <= e.held
    BY <1>2, <1>7, <1>10, <2>2 DEF GetInfo, RequestInv, Waiting
  <2>5. UNCHANGED cache
    BY <1>10 DEF GetInfo
  <2> HIDE DEF e
  <2>6. Goes(q, "served", e)
    BY <2>1 DEF e
  <2> QED
    BY <1>4, <1>8, <2>2, <2>3, <2>4, <2>5, <2>6
<1>11. CASE Store(q)
  <2> DEFINE old == req[q].entry
             e == Entry(old.info, old.age, 0)
  <2>1. /\ e \in Entries /\ e.info = old.info /\ e.age = old.age /\ e.held = 0
    BY <1>2 DEF Entry, Entries
  <2>2. cache' = e /\ Goes(q, "answered", e)
    BY <1>11 DEF Store
  <2>3. Truthful(old) /\ old.age <= old.held /\ old.held <= Latency
    BY <1>7, <1>11 DEF Store, RequestInv, Waiting
  <2>4. Truthful(e)
    BY <2>1, <2>3 DEF Truthful
  <2>5. e.age <= e.held + Latency /\ e.age < MaxAge
    BY <1>2, <2>1, <2>3 DEF MaxAge
  <2>6. e.info.kind = "value" => head <= e.info.head + e.age
    BY <2>4, <2>5 DEF Truthful
  <2> HIDE DEF e
  <2>7. Truthful(cache)'
    BY <1>1, <2>2, <2>4 DEF Truthful
  <2> QED
    BY <1>4, <2>1, <2>2, <2>4, <2>5, <2>6, <2>7
<1>12. CASE Respond(q)
  <2>1. Goes(q, "idle", Empty) /\ UNCHANGED cache
    BY <1>12 DEF Respond
  <2>2. Truthful(Empty)
    BY <1>3 DEF Truthful
  <2> QED
    BY <1>3, <1>4, <1>8, <2>1, <2>2
<1> QED
  BY <1>5, <1>9, <1>10, <1>11, <1>12

LEMMA Inductive == IInv /\ [Next]_vars => IInv'
<1> SUFFICES ASSUME IInv, [Next]_vars
             PROVE  IInv'
  OBVIOUS
<1>1. CASE Tick
  BY <1>1, Clock
<1>2. CASE IndexBlock
  <2>1. TypeOK' /\ UNCHANGED <<head, cache, req>>
    BY <1>2 DEF IndexBlock, IInv, TypeOK
  <2> QED
    BY <2>1 DEF IInv, RequestInv, Truthful, Waiting, Answered
<1>3. CASE ApiChanges
  <2>1. TypeOK' /\ UNCHANGED <<head, cache, req>>
    BY <1>3 DEF ApiChanges, IInv, TypeOK
  <2> QED
    BY <2>1 DEF IInv, RequestInv, Truthful, Waiting, Answered
<1>4. CASE \E r \in Requests :
             Arrive(r) \/ ReadCache(r) \/ GetInfo(r) \/ Store(r) \/ Respond(r)
  BY <1>4, Requesting
<1>5. CASE UNCHANGED vars
  <2>1. TypeOK' /\ UNCHANGED <<head, cache, req>>
    BY <1>5 DEF vars, IInv, TypeOK
  <2> QED
    BY <2>1 DEF IInv, RequestInv, Truthful, Waiting, Answered
<1> QED
  BY <1>1, <1>2, <1>3, <1>4, <1>5 DEF Next

-----------------------------------------------------------------------------
(* The theorems.                                                             *)

\* Every state has the types, and the entries say what was so (mod.rs:30-51).
THEOREM Invariance == Spec => []IInv
BY Initially, Inductive, PTL DEF Spec

\* However many requests overlap and whichever stores last, no answer has chain
\* information older than one life in the cache and one call (mod.rs:31-51).
THEOREM Fresh == Spec => FreshAnswers
<1>1. IInv /\ [Next]_vars => [Young]_vars
  <2> SUFFICES ASSUME IInv, Next, NEW r \in Requests, Answered(r)', ~Answered(r)
               PROVE  req'[r].entry.age < TTL + Latency
    BY DEF Young
  <2> USE ChainInfoAssumption
  <2>1. /\ cache.age \in Nat /\ cache.held \in Nat
        /\ req[r].entry.age \in Nat /\ req[r].entry.held \in Nat
    BY DEF IInv, TypeOK, Entries, MaxAge
  <2>2. req[r].pc # "answered" /\ req'[r].pc = "answered"
    BY DEF Answered
  <2>3. ASSUME NEW q \in Requests, NEW pc, NEW entry, Goes(q, pc, entry)
        PROVE  q = r /\ pc = "answered" /\ req'[r].entry = entry
    <3>1. req'[q] = [pc |-> pc, entry |-> entry] /\ (q # r => req'[r] = req[r])
      BY <2>3 DEF Goes, IInv, TypeOK
    <3> QED
      BY <2>2, <3>1
  <2>4. PICK q \in Requests :
          Arrive(q) \/ ReadCache(q) \/ GetInfo(q) \/ Store(q) \/ Respond(q)
    <3>1. CASE Tick
      <4>1. req'[r].pc = req[r].pc
        BY <3>1 DEF Tick
      <4> QED
        BY <2>2, <4>1
    <3>2. CASE IndexBlock \/ ApiChanges
      BY <2>2, <3>2 DEF IndexBlock, ApiChanges
    <3> QED
      BY <3>1, <3>2 DEF Next
  <2>5. CASE Arrive(q) \/ GetInfo(q) \/ Respond(q)
    BY <2>3, <2>5 DEF Arrive, GetInfo, Respond
  <2>6. CASE ReadCache(q)
    <3>1. cache.held < TTL /\ Goes(q, "answered", cache)
      <4>1. CASE cache.held < TTL
        BY <2>6, <4>1 DEF ReadCache
      <4>2. CASE ~(cache.held < TTL)
        <5>1. Goes(q, "sent", Entry(Null, MaxAge, 0))
          BY <2>6, <4>2 DEF ReadCache
        <5> QED
          BY <2>3, <5>1
      <4> QED
        BY <4>1, <4>2
    <3>2. req'[r].entry = cache /\ cache.age <= cache.held + Latency
      BY <2>3, <3>1 DEF IInv
    <3> QED
      BY <2>1, <3>1, <3>2
  <2>7. CASE Store(q)
    <3> DEFINE old == req[q].entry
    <3>1. Goes(q, "answered", Entry(old.info, old.age, 0))
      BY <2>7 DEF Store
    <3>2. q = r /\ req'[r].entry.age = old.age
      BY <2>3, <3>1 DEF Entry
    <3>3. old.age <= old.held /\ old.held <= Latency
      BY <2>7 DEF Store, IInv, RequestInv, Waiting
    <3> QED
      BY <2>1, <3>2, <3>3
  <2> QED
    BY <2>4, <2>5, <2>6, <2>7
<1> QED
  BY <1>1, Invariance, PTL DEF Spec, FreshAnswers

\* A report that the indexer is behind is true of the chain as it is now, and
\* one that it is not is wrong by the age of the head at most (health.rs:46-57).
THEOREM Honest == Spec => []HonestHealth
<1>1. IInv => HonestHealth
  <2> USE ChainInfoAssumption
  <2> SUFFICES ASSUME IInv, NEW r \in Requests, NEW answers \in BOOLEAN,
                      Answered(r), req[r].entry.info.kind = "value"
               PROVE  IF IndexerStatus(req[r].entry.info, LastIndexed(answers)) = "Warning"
                        THEN answers => head - indexed >= Lag
                      ELSE head - indexed < Lag + req[r].entry.age
    BY DEF HonestHealth
  <2> DEFINE h == req[r].entry.info.head
             age == req[r].entry.age
             last == LastIndexed(answers)
  <2>1. /\ head \in Nat /\ indexed \in Nat /\ h \in 1 .. head /\ age \in Nat
        /\ head <= h + age
    BY DEF IInv, TypeOK, Entries, Infos, MaxAge, RequestInv, Truthful
  <2>2. last \in Nat /\ last <= indexed /\ (answers => last = indexed)
    BY <2>1 DEF LastIndexed
  <2>3. IndexerStatus(req[r].entry.info, last) =
          IF h > 0 /\ h - (IF last < h THEN last ELSE h) < Lag THEN "OK" ELSE "Warning"
    BY DEF IndexerStatus, HeadOf
  <2> HIDE DEF h, age, last
  <2>4. CASE h - (IF last < h THEN last ELSE h) < Lag
    <3>1. IndexerStatus(req[r].entry.info, last) = "OK"
      BY <2>1, <2>3, <2>4
    <3>2. head - indexed < Lag + age
      BY <2>1, <2>2, <2>4
    <3> QED
      BY <3>1, <3>2 DEF age, last
  <2>5. CASE ~(h - (IF last < h THEN last ELSE h) < Lag)
    <3>1. IndexerStatus(req[r].entry.info, last) = "Warning"
      BY <2>3, <2>5
    <3>2. answers => head - indexed >= Lag
      BY <2>1, <2>2, <2>5
    <3> QED
      BY <3>1, <3>2 DEF last
  <2> QED
    BY <2>4, <2>5
<1> QED
  BY <1>1, Invariance, PTL
=============================================================================
