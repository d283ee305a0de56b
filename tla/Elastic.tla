------------------------------- MODULE Elastic --------------------------------
(***************************************************************************)
(* Elasticsearch as the indexer and the API use it (elastic.rs,            *)
(* BulkBatch::push, search_sources): a store of documents written by       *)
(* `_bulk` items that carry an external version, and searched.  The        *)
(* version rule and the sort are Elasticsearch's; documents that a sort    *)
(* does not tell apart come in an order nobody promises, here that of the  *)
(* fold.                                                                   *)
(*                                                                         *)
(* An item is [op, id, version, value].  A deleted document leaves a       *)
(* tombstone with its version; Elasticsearch forgets tombstones after      *)
(* index.gc_deletes, which is not modelled here.                           *)
(***************************************************************************)
EXTENDS Integers, Sequences, FiniteSets, SequencesExt

CONSTANT NoValue    \* the value of a document that is absent or deleted

\* Every version the indexer sends is at least 2^32.
Absent == [version |-> 0, value |-> NoValue]

Live(doc) == doc.value # NoValue

\* External versioning: an item is applied over a strictly lower version.
Superseded(doc, item) == item.version <= doc.version

Write(doc, item) ==
    IF Superseded(doc, item) THEN doc
    ELSE [version |-> item.version,
          value |-> IF item.op = "delete" THEN NoValue ELSE item.value]

WriteTo(docs, item) == [docs EXCEPT ![item.id] = Write(@, item)]

ItemStatus(doc, item) ==
    IF Superseded(doc, item) THEN 409
    ELSE IF item.op = "delete" /\ ~Live(doc) THEN 404
    ELSE 200

\* The documents after the first k items of a request, for every k.
DocsAfter(docs, items) ==
    LET after[k \in 0 .. Len(items)] ==
            IF k = 0 THEN docs ELSE WriteTo(after[k - 1], items[k])
    IN  after

\* The items of one request, applied in order, with their statuses.
BulkResult(docs, items) ==
    LET after == DocsAfter(docs, items) IN
    [docs |-> after[Len(items)],
     status |-> [k \in 1 .. Len(items) |->
                    ItemStatus(after[k - 1][items[k].id], items[k])]]

\* The `errors` flag of the response: a delete that found nothing is not an
\* error for Elasticsearch, a version conflict is.
ErrorsFlag(status) == \E k \in DOMAIN status : status[k] = 409

\* `Elastic::bulk`: the number of items it counts as failed.
BulkFailures(status) ==
    IF ~ErrorsFlag(status) THEN 0
    ELSE Cardinality({k \in DOMAIN status : status[k] # 409 /\ status[k] >= 300})

-----------------------------------------------------------------------------
(* Searches.                                                               *)

Page(s, from, size) == SubSeq(s, from + 1, IF from + size < Len(s) THEN from + size ELSE Len(s))

Asc(field) == [dir |-> "asc", field |-> field]
Desc(field) == [dir |-> "desc", field |-> field]
Unsorted == [dir |-> "none"]

Rank(doc, sort) ==
    CASE sort.dir = "asc"  -> doc[sort.field]
      [] sort.dir = "desc" -> -doc[sort.field]
      [] OTHER             -> 0

\* The elements of S by their keys, each inserted after those that come before it.
Ordered(S, key) ==
    FoldSet(LAMBDA x, acc :
                InsertAt(acc, 1 + Cardinality({k \in DOMAIN acc : key[acc[k]] <= key[x]}), x),
            <<>>, S)

\* The documents of an index.
Ids(docs, kind) == {id \in DOMAIN docs : id[1] = kind /\ Live(docs[id])}

\* `search_sources`: the documents that match, in order.
Search(docs, matches, sort, from, size) ==
    LET found == Ordered(matches, [id \in matches |-> Rank(docs[id].value, sort)])
    IN  Page([k \in DOMAIN found |-> docs[found[k]].value], from, size)
=============================================================================
