------------------------------ MODULE MCIndexer -------------------------------
(* Indexer on small chains.                                                  *)
EXTENDS Indexer

\* A block writes the entity, removes it, replaces it, or leaves it alone.
MCContents == {<<"index">>, <<"delete">>, <<"delete", "index">>, <<>>}

\* A block writes the entity, or writes and then removes it.
MCTransient == {<<"index">>, <<"index", "delete">>}

\* A block writes the entity or removes it.
MCOverwrites == {<<"index">>, <<"delete">>}
=============================================================================
