------------------------------- MODULE Retrieval -------------------------------
(***************************************************************************)
(* Queries (retrieval/service.py) against a knowledge base whose index is  *)
(* being rebuilt, promoted and rolled back.  A query reads the record,     *)
(* embeds its text with the configured provider, and searches through the  *)
(* alias: between these steps the operators of IndexLifecycle go on.       *)
(*                                                                         *)
(* Authorisation comes before all this and narrows the search; the score   *)
(* threshold and explain mode come after it.  A query against a scratch    *)
(* collection (collection_override) uses neither record nor alias.         *)
(***************************************************************************)
EXTENDS IndexLifecycle

CONSTANTS Readers,    \* concurrent queries
          MaxQueries, \* bound on the number of queries
          Space       \* Space[i]: [model, dims], what the mismatch check compares of i

ASSUME RetrievalAssumption == MaxQueries \in Nat /\ DOMAIN Space = Identities

VARIABLES
  query,   \* query[r]: the query r is in, or its answer
  cached,  \* the query text is in the embedding cache under these spaces
  queries  \* number of queries started

retrievalVars == <<query, cached, queries>>
everything == <<vars, retrievalVars>>

Spaces == {Space[i] : i \in Identities}
Errors == { "KB_NOT_READY", "EMBEDDING_MODEL_MISMATCH", "PROVIDER_UNAVAILABLE",
            "VECTOR_DB_UNAVAILABLE" }
Status == Errors \cup {"none", "no_matches", "matches"}

Query == [ pc : {"idle", "embed", "search"}, model : MaybeIdentity,
           status : Status ]
NoQuery == [pc |-> "idle", model |-> None, status |-> "none"]

RetrievalTypeOK ==
  /\ query \in [Readers -> Query]
  /\ cached \subseteq Spaces
  /\ queries \in 0 .. MaxQueries

RetrievalInit ==
  /\ Init
  /\ query = [r \in Readers |-> NoQuery]
  /\ cached = {}
  /\ queries = 0

-----------------------------------------------------------------------------
Answer(r, m, status) ==
  query' = [query EXCEPT ![r] = [pc |-> "idle", model |-> m, status |-> status]]

Ready == record.there /\ record.collection # None

\* model_id and vector_dimensions of the provider against those of the record;
\* the other parts of the identity are not compared.
Matches(m) == record.identity # None /\ Space[m] = Space[record.identity]

\* Steps 1 and 2: the record, and the mismatch check against it.
ReadAliasRecord(r, m) ==
  /\ query[r].pc = "idle"
  /\ queries < MaxQueries
  /\ queries' = queries + 1
  /\ \/ ~Ready /\ Answer(r, m, "KB_NOT_READY")
     \/ Ready /\ ~Matches(m) /\ Answer(r, m, "EMBEDDING_MODEL_MISMATCH")
     \/ /\ Ready /\ Matches(m)
        /\ query' = [query EXCEPT ![r] = [NoQuery EXCEPT !.pc = "embed", !.model = m]]
  /\ UNCHANGED <<vars, cached>>

\* Mutant: the cache is keyed by the whole identity.
EmbedQueryByIdentity(r, up) ==
  LET m == query[r].model
  IN  /\ query[r].pc = "embed"
      /\ IF m \in cached \/ up
         THEN /\ query' = [query EXCEPT ![r].pc = "search"]
              /\ cached' = cached \cup {m}
         ELSE /\ Answer(r, m, "PROVIDER_UNAVAILABLE")
              /\ UNCHANGED cached
      /\ UNCHANGED <<vars, queries>>

\* make_cache_key, for one query text: what of an identity tells its vectors apart.
VectorKey(m) == Space[m]

\* Step 3: the vector comes from the cache or from the provider; only a vector
\* is cached, never a failure.
EmbedQuery(r, up) ==
  LET m == query[r].model
      s == VectorKey(m)
  IN  /\ query[r].pc = "embed"
      /\ IF s \in cached \/ up
         THEN /\ query' = [query EXCEPT ![r].pc = "search"]
              /\ cached' = cached \cup {s}
         ELSE /\ Answer(r, m, "PROVIDER_UNAVAILABLE")
              /\ UNCHANGED cached
      /\ UNCHANGED <<vars, queries>>

\* The vector size of collection c, fixed when it is created: that of the
\* identity pinned on it and of the vectors in it.
Sizes(c) ==
  {Space[i].dims : i \in ({c.identity} \ {None}) \cup {x[2] : x \in c.points}}

\* Step 4: the store resolves the alias itself, and refuses a vector of another
\* size than the collection's.
Search(r) ==
  LET m == query[r].model
  IN  /\ query[r].pc = "search"
      /\ IF alias # None /\ Sizes(coll[alias]) \subseteq {Space[m].dims}
         THEN Answer(r, m, IF coll[alias].points = {} THEN "no_matches" ELSE "matches")
         ELSE Answer(r, m, "VECTOR_DB_UNAVAILABLE")
      /\ UNCHANGED <<vars, cached, queries>>

\* TTL, eviction or `corpus cache flush'.
Evict(s) ==
  /\ cached' = cached \ {s}
  /\ UNCHANGED <<vars, query, queries>>

\* upsert_points of vectors of another size is refused by the store as well.
OneSizeEach == \A b \in Builds : Cardinality(Sizes(coll'[b])) <= 1

RetrievalNext ==
  \/ Next /\ OneSizeEach /\ UNCHANGED retrievalVars
  \/ \E r \in Readers :
       (\E m \in Identities : ReadAliasRecord(r, m)) \/ (\E up \in BOOLEAN : EmbedQuery(r, up))
       \/ Search(r)
  \/ \E s \in cached : Evict(s)

RetrievalSpec == RetrievalInit /\ [][RetrievalNext]_everything

-----------------------------------------------------------------------------
(* Properties.                                                             *)

\* A query that passed the checks is never refused by the store, whatever is
\* promoted, rolled back, retried, reconciled or abandoned half way under it
\* (index-lifecycle.md 11, test 1: zero errors).
NoDowntime == \A r \in Readers : query[r].status # "VECTOR_DB_UNAVAILABLE"

-----------------------------------------------------------------------------
(* What the documents say and the code does not do.                        *)

\* A query vector is compared with the vectors of a collection pinned to its own
\* space only: a mismatch fails closed (provider-abstraction.md 3.3).
ComparesOneSpace ==
  [][\A r \in Readers :
       /\ query'[r] # query[r]
       /\ query'[r].status = "matches"
       /\ coll[alias].identity # None
       => Space[query[r].model] = Space[coll[alias].identity]]_everything

\* No window of incorrect mismatch errors (index-lifecycle.md 11, test 1): the
\* refused provider is not the one of the collection that is being served.
MismatchIsReal ==
  [][\A r \in Readers :
       /\ query'[r] # query[r]
       /\ query'[r].status = "EMBEDDING_MODEL_MISMATCH"
       /\ alias # None
       => \/ coll[alias].identity = None
          \/ Space[query'[r].model] # Space[coll[alias].identity]]_everything
=============================================================================
