------------------------------- MODULE ChainInfo ------------------------------
(* The chain information that every answer of the HTTP API embeds            *)
(* (`ApiState::chain_info`, api/mod.rs) and the health report made from it   *)
(* (api/health.rs): requests share a cache of get_info, which none of them   *)
(* holds locked while it asks the chain API.                                 *)
(*                                                                           *)
(* Time is a number of ticks; ages that no property tells apart are the same *)
(* (MaxAge).  get_info has no time limit in the code: that the chain API     *)
(* answers or refuses within Latency is assumed.                             *)
EXTENDS Integers, FiniteSets

CONSTANTS
    Requests,  \* the requests in flight
    TTL,       \* two seconds
    Latency,   \* bound: ticks a get_info takes, with the delay before it is stored
    Lag,       \* 20: blocks the index may be behind
    MaxHead    \* bound: blocks of the chain

ASSUME ChainInfoAssumption ==
    /\ TTL \in Nat \ {0} /\ Latency \in Nat \ {0}
    /\ Lag \in Nat \ {0} /\ MaxHead \in Nat

MaxAge == TTL + Latency + 1

VARIABLES
    head,     \* the chain's last block
    indexed,  \* the last block of the block index
    api,      \* the chain API: "up", "failing" or answering with an "error" body
    cache,    \* lib_cache
    req       \* the requests
vars == <<head, indexed, api, cache, req>>

\* `age` is how long ago the chain was as info says, `held` for how long the
\* cache has it or the request has waited.
Null == [kind |-> "null", head |-> 0]
Entry(info, age, held) == [info |-> info, age |-> age, held |-> held]
Empty == Entry(Null, MaxAge, TTL)
Idle == [pc |-> "idle", entry |-> Empty]

Init ==
    /\ head = 1
    /\ indexed = 0
    /\ api = "up"
    /\ cache = Empty
    /\ req = [r \in Requests |-> Idle]

-----------------------------------------------------------------------------
(* The surroundings.                                                         *)

Older(e, most) == Entry(e.info, IF e.age < MaxAge THEN e.age + 1 ELSE e.age,
                        IF e.held < most THEN e.held + 1 ELSE e.held)

Answered(r) == req[r].pc = "answered"
Waiting(r) == req[r].pc \in {"sent", "served"}

\* A tick of the clock; the chain may have one block more.  A report
\* is given before ages are no longer told apart.
Tick ==
    /\ \A r \in Requests : Waiting(r) => req[r].entry.held < Latency
    /\ \A r \in Requests : Answered(r) => req[r].entry.age < MaxAge
    /\ cache' = Older(cache, TTL)
    /\ req' = [r \in Requests |->
                 IF req[r].pc = "idle" THEN req[r]
                 ELSE [pc |-> req[r].pc, entry |-> Older(req[r].entry, Latency)]]
    /\ head' \in {head, head + 1} \cap 1 .. MaxHead
    /\ UNCHANGED <<indexed, api>>

IndexBlock ==
    /\ indexed < head
    /\ indexed' = indexed + 1
    /\ UNCHANGED <<head, api, cache, req>>

ApiChanges ==
    /\ api' \in {"up", "failing", "error"} \ {api}
    /\ UNCHANGED <<head, indexed, cache, req>>

-----------------------------------------------------------------------------
(* A request.                                                                *)

Goes(r, pc, entry) == req' = [req EXCEPT ![r] = [pc |-> pc, entry |-> entry]]

Arrive(r) ==
    /\ req[r].pc = "idle"
    /\ Goes(r, "asked", Empty)
    /\ UNCHANGED <<head, indexed, api, cache>>

\* Mutant: a hit makes the entry as good as new.
ReadCacheKeepsAlive(r) ==
    /\ req[r].pc = "asked"
    /\ IF cache.held < TTL
         THEN Goes(r, "answered", cache) /\ cache' = Entry(cache.info, cache.age, 0)
         ELSE Goes(r, "sent", Entry(Null, MaxAge, 0)) /\ UNCHANGED cache
    /\ UNCHANGED <<head, indexed, api>>

\* The cache is read under its lock, and answers for TTL.
ReadCache(r) ==
    /\ req[r].pc = "asked"
    /\ IF cache.held < TTL THEN Goes(r, "answered", cache)
       ELSE Goes(r, "sent", Entry(Null, MaxAge, 0))
    /\ UNCHANGED <<head, indexed, api, cache>>

\* The chain API answers.  An error with a JSON body is an answer without
\* fields (get_info does not look at the status).
GetInfo(r) ==
    /\ req[r].pc = "sent"
    /\ LET Serve(info) == Goes(r, "served", Entry(info, 0, req[r].entry.held)) IN
       \/ api = "up"      /\ Serve([kind |-> "value", head |-> head])
       \/ api = "failing" /\ Serve(Null)
       \/ api = "error"   /\ Serve([kind |-> "blank", head |-> 0])
    /\ UNCHANGED <<head, indexed, api, cache>>

\* It is stored, over whatever another request stored since, and returned.
Store(r) ==
    /\ req[r].pc = "served"
    /\ cache' = Entry(req[r].entry.info, req[r].entry.age, 0)
    /\ Goes(r, "answered", cache')
    /\ UNCHANGED <<head, indexed, api>>

\* The request is over: a health report reads the index now.
Respond(r) ==
    /\ req[r].pc = "answered"
    /\ Goes(r, "idle", Empty)
    /\ UNCHANGED <<head, indexed, api, cache>>

Next ==
    \/ Tick \/ IndexBlock \/ ApiChanges
    \/ \E r \in Requests : Arrive(r) \/ ReadCache(r) \/ GetInfo(r) \/ Store(r) \/ Respond(r)

\* Time passes, requests are scheduled, and the chain API answers or refuses.
Fairness ==
    /\ SF_vars(Tick)
    /\ \A r \in Requests :
         WF_vars(ReadCache(r)) /\ WF_vars(GetInfo(r)) /\ WF_vars(Store(r)) /\ WF_vars(Respond(r))

Spec == Init /\ [][Next]_vars /\ Fairness

-----------------------------------------------------------------------------
\* `ApiState::lib` and the statuses of `health`.
HeadOf(info) == IF info.kind = "value" THEN info.head ELSE 0

NodeStatus(info) == IF info.kind = "null" THEN "Error" ELSE "OK"

\* `max_block_num` of the block index, or 0 when Elasticsearch does not answer.
LastIndexed(answers) == IF answers THEN indexed ELSE 0

\* Mutant: one block too many.
IndexerStatusOffByOne(info, last) ==
    LET h == HeadOf(info)
        behind == h - (IF last < h THEN last ELSE h)
    IN  IF h > 0 /\ behind <= Lag THEN "OK" ELSE "Warning"

IndexerStatus(info, last) ==
    LET h == HeadOf(info)
        behind == h - (IF last < h THEN last ELSE h)
    IN  IF h > 0 /\ behind < Lag THEN "OK" ELSE "Warning"

\* mod.rs:31: cached briefly.  However requests overlap, and whichever stores
\* last, an answer is younger than one life in the cache and one call.
Young == \A r \in Requests :
    Answered(r)' /\ ~Answered(r) => req'[r].entry.age < TTL + Latency
FreshAnswers == [][Young]_vars

\* health.rs:46-57: the head is that of a cached get_info, the index is read
\* now.  A report that the indexer is behind is true of the chain as it is now,
\* if the index could be read; one that it is not is wrong by the blocks since
\* get_info at most.
HonestHealth ==
    \A r \in Requests, answers \in BOOLEAN :
        LET entry == req[r].entry IN
        Answered(r) /\ entry.info.kind = "value" =>
            IF IndexerStatus(entry.info, LastIndexed(answers)) = "Warning"
              THEN answers => head - indexed >= Lag
            ELSE head - indexed < Lag + entry.age

\* Once the chain API stays up, every answer has its information again, though
\* failures were cached.
Recovers ==
    <>[](api = "up") =>
        <>[](\A r \in Requests : Answered(r) =>
                NodeStatus(req[r].entry.info) = "OK" /\ HeadOf(req[r].entry.info) > 0)
=============================================================================
