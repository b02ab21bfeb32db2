----------------------------- MODULE VectorIndex -----------------------------
(* The similar tier of the search: the documents of the tracker that the     *)
(* triggers keep (search-docs.js), the vectors a pass of the indexer makes    *)
(* of them, batch by batch with the embedder awaited in between, and the      *)
(* matrix of each user that queries are answered from (vector-index.js).      *)
(* Tracker rows are written, emptied and deleted while a batch is embedded;   *)
(* an id is free again when the last document goes (no AUTOINCREMENT).        *)
EXTENDS Integers, FiniteSets

CONSTANTS
  Owners,    \* users
  Bodies,    \* what a document may say
  Models,    \* embedders: one per run of the process
  BatchSize, \* documents per call of the embedder
  MaxDocs,   \* bound: the largest id
  MaxWrites  \* bound: writes while the embedder holds a batch

ASSUME VectorAssumption ==
  /\ "none" \notin Owners
  /\ BatchSize \in Nat \ {0} /\ MaxDocs \in Nat /\ MaxWrites \in Nat

VARIABLES
  docs,     \* search_docs: owner and body of an id
  vectors,  \* search_vectors: owner, body (text_hash) and model of an id
  matrix,   \* a user's matrix when it is loaded: what each row was made of, by what
  model,    \* the embedder of this process
  purged,   \* purgedFor: the vectors of other models are gone
  pass,     \* is a pass under way, and its cursor
  page,     \* the documents the embedder holds, as they were read
  skipped,  \* the documents the embedder failed on in this process
  writes,   \* writes since the page was read
  steady    \* history: documents as they were when the pass began

vectorVars == <<docs, vectors, matrix, model, purged, pass, page, skipped, writes, steady>>

Ids == 1 .. MaxDocs
NoDoc == [owner |-> "none"]
NoVector == [owner |-> "none"]
Unloaded == [d \in {} |-> 0]
NoPass == [on |-> FALSE, cursor |-> 0]
Stored == {d \in Ids : docs[d] # NoDoc}
Embedded == {d \in Ids : vectors[d] # NoVector}

VectorInit ==
  /\ docs = [d \in Ids |-> NoDoc] /\ vectors = [d \in Ids |-> NoVector]
  /\ matrix = [u \in Owners |-> [on |-> FALSE, rows |-> Unloaded]]
  /\ model \in Models /\ purged = FALSE /\ pass = NoPass /\ page = {}
  /\ skipped = {} /\ writes = 0 /\ steady = {}

----------------------------------------------------------------------------
(* The triggers on the tracker's tables: upsertSql, triggersFor.            *)

\* The largest id and one: what SQLite gives a row without AUTOINCREMENT.
NextId == IF Stored = {} THEN 1 ELSE 1 + CHOOSE d \in Stored : \A e \in Stored : e <= d

\* A write that the page may meet.
Written ==
  /\ page # {} => writes < MaxWrites
  /\ writes' = IF page = {} THEN 0 ELSE writes + 1

\* A tracker row gets words, in a field that had none.
AddDoc(u, b) ==
  /\ NextId \in Ids /\ Written
  /\ docs' = [docs EXCEPT ![NextId] = [owner |-> u, body |-> b]]
  /\ UNCHANGED <<vectors, matrix, model, purged, pass, page, skipped, steady>>

\* Its words change: search_vectors_doc_au drops the vector.  Slip: only an
\* insert and a delete are looked at.
VectorStays(v, d) == v
VectorDropped(v, d) == [v EXCEPT ![d] = NoVector]
EditDoc(d, b) ==
  /\ d \in Stored /\ docs[d].body # b /\ Written
  /\ docs' = [docs EXCEPT ![d].body = b]
  /\ vectors' = VectorDropped(vectors, d)
  /\ steady' = steady \ {d}
  /\ UNCHANGED <<matrix, model, purged, pass, page, skipped>>

\* The row goes, or the field is emptied: search_vectors_doc_ad.
DropDoc(d) ==
  /\ d \in Stored /\ Written
  /\ docs' = [docs EXCEPT ![d] = NoDoc]
  /\ vectors' = [vectors EXCEPT ![d] = NoVector]
  /\ steady' = steady \ {d}
  /\ UNCHANGED <<matrix, model, purged, pass, page, skipped>>

----------------------------------------------------------------------------
(* A pass: runVectorIndexer.                                                *)

\* Where it begins.  Slip: where the one before it stopped.
OnFromLast(p) == [p EXCEPT !.on = TRUE]
FromTheStart(p) == [on |-> TRUE, cursor |-> 0]

StartPass ==
  /\ ~pass.on
  /\ pass' = FromTheStart(pass)
  /\ vectors' = IF purged THEN vectors
       ELSE [d \in Ids |-> IF d \in Embedded /\ vectors[d].model # model THEN NoVector ELSE vectors[d]]
  /\ purged' = TRUE /\ steady' = Stored
  /\ UNCHANGED <<docs, matrix, model, page, skipped, writes>>

\* The first BatchSize documents after c that have no vector.
Unembedded(c) == {d \in Stored \ Embedded : d > c}
Window(c) == {d \in Unembedded(c) : Cardinality({e \in Unembedded(c) : e <= d}) <= BatchSize}
LastOf(w) == CHOOSE d \in w : \A e \in w : e <= d

\* A batch that is all skipped leads to the next one at once.
Batch ==
  LET F[c \in 0 .. MaxDocs] ==
        IF Window(c) = {} THEN [rows |-> {}, cursor |-> c]
        ELSE IF Window(c) \subseteq skipped THEN F[LastOf(Window(c))]
        ELSE [rows |-> Window(c) \ skipped, cursor |-> LastOf(Window(c))]
  IN F[pass.cursor]

\* The embedder is given a batch, or the pass has seen everything.
ReadPage ==
  /\ pass.on /\ page = {} /\ Batch.rows # {}
  /\ page' = {[id |-> d, owner |-> docs[d].owner, body |-> docs[d].body] : d \in Batch.rows}
  /\ pass' = [pass EXCEPT !.cursor = Batch.cursor]
  /\ UNCHANGED <<docs, vectors, matrix, model, purged, skipped, writes, steady>>
EndPass ==
  /\ pass.on /\ page = {} /\ Batch.rows = {}
  /\ pass' = [pass EXCEPT !.on = FALSE]
  /\ UNCHANGED <<docs, vectors, matrix, model, purged, page, skipped, writes, steady>>

\* The upsert stores a vector for the words it was made of, no others.
\* Slips: for whatever the document says by now; for a document that is gone.
AnyWords(r) == docs[r.id] # NoDoc
AnyDoc(r) == docs[r.id] = NoDoc \/ docs[r.id].body = r.body
SameWords(r) == docs[r.id] # NoDoc /\ docs[r.id].body = r.body

\* upsertVectors: what was stored goes into the matrices that are loaded.
\* Slip: into none; a matrix keeps what it was loaded with.
NotFolded(u, rows) == matrix[u].rows
Folded(u, rows) ==
  LET mine == {r \in rows : r.owner = u} IN
  [d \in DOMAIN matrix[u].rows \cup {r.id : r \in mine} |->
     IF \E r \in mine : r.id = d THEN <<(CHOOSE r \in mine : r.id = d).body, model>> ELSE matrix[u].rows[d]]

\* embedRows and the batch's transaction: the embedder failed on some of the
\* batch, but not on all of it.
StoreBatch(failed) ==
  LET written == {r \in page : r.id \notin failed /\ SameWords(r)} IN
  /\ page # {} /\ failed \subseteq {r.id : r \in page} /\ failed # {r.id : r \in page}
  /\ vectors' = [d \in Ids |-> IF \E r \in written : r.id = d
       THEN [owner |-> IF docs[d] = NoDoc THEN (CHOOSE r \in written : r.id = d).owner ELSE docs[d].owner,
             body |-> (CHOOSE r \in written : r.id = d).body, model |-> model,
             readAs |-> (CHOOSE r \in written : r.id = d).owner]
       ELSE vectors[d]]
  /\ matrix' = [u \in Owners |-> IF matrix[u].on THEN [on |-> TRUE, rows |-> Folded(u, written)] ELSE matrix[u]]
  /\ skipped' = skipped \cup failed
  /\ page' = {} /\ writes' = 0
  /\ UNCHANGED <<docs, model, purged, pass, steady>>

\* It failed on each of them: the pass ends and nothing is skipped.
EmbedderFails ==
  /\ page # {}
  /\ page' = {} /\ writes' = 0 /\ pass' = [pass EXCEPT !.on = FALSE]
  /\ steady' = {}
  /\ UNCHANGED <<docs, vectors, matrix, model, purged, skipped>>

----------------------------------------------------------------------------
(* Queries: similarDocs.                                                    *)

\* load.  Slip: vectors of another model are taken in.
AnyModel(u) == {d \in Embedded : vectors[d].owner = u}
OwnModel(u) == {d \in Embedded : vectors[d].owner = u /\ vectors[d].model = model}
Query(u) ==
  /\ ~matrix[u].on
  /\ matrix' = [matrix EXCEPT ![u] = [on |-> TRUE, rows |-> [d \in OwnModel(u) |-> <<vectors[d].body, vectors[d].model>>]]]
  /\ UNCHANGED <<docs, vectors, model, purged, pass, page, skipped, writes, steady>>

\* evictIdle.
Evict(u) ==
  /\ matrix[u].on
  /\ matrix' = [matrix EXCEPT ![u] = [on |-> FALSE, rows |-> Unloaded]]
  /\ UNCHANGED <<docs, vectors, model, purged, pass, page, skipped, writes, steady>>

\* The process ends, whatever it is doing, and another one starts.
NewProcess(m) ==
  /\ model' = m /\ purged' = FALSE /\ pass' = NoPass /\ page' = {} /\ skipped' = {}
  /\ matrix' = [u \in Owners |-> [on |-> FALSE, rows |-> Unloaded]]
  /\ writes' = 0 /\ steady' = {}
  /\ UNCHANGED <<docs, vectors>>

VectorNext ==
  \/ \E u \in Owners : Query(u) \/ Evict(u) \/ \E b \in Bodies : AddDoc(u, b)
  \/ \E d \in Ids : DropDoc(d) \/ \E b \in Bodies : EditDoc(d, b)
  \/ StartPass \/ ReadPage \/ EndPass \/ EmbedderFails
  \/ \E failed \in SUBSET Ids : StoreBatch(failed)
  \/ \E m \in Models : NewProcess(m)

----------------------------------------------------------------------------
\* A stored vector is of the words its document has now and of its owner: none
\* is of a document that went or changed while it was embedded, even when its
\* id was taken over meanwhile (runVectorIndexer, the triggers).
VectorsTrue ==
  \A d \in Embedded : d \in Stored /\ vectors[d].body = docs[d].body /\ vectors[d].owner = docs[d].owner

\* A loaded matrix has only vectors of this embedder, and each that its user has
\* stored (createVectorStore, onWrite): all but one of a document that took
\* over the id and the very words of another user's while they were embedded,
\* which upsertVectors is told is still the other's.
MatrixFollows ==
  \A u \in Owners : matrix[u].on =>
    /\ \A d \in DOMAIN matrix[u].rows : matrix[u].rows[d][2] = model
    /\ \A d \in Embedded : vectors[d].owner = u /\ vectors[d].readAs = u /\ vectors[d].model = model =>
         d \in DOMAIN matrix[u].rows /\ matrix[u].rows[d][1] = vectors[d].body

\* When a pass ends, every document that was there all along and did not
\* change has its vector, of this embedder, or made the embedder fail, whatever
\* was written, deleted and given its id again meanwhile.
PassComplete ==
  pass.on /\ page = {} /\ Batch.rows = {} =>
    \A d \in steady \ skipped : d \in Embedded /\ vectors[d].model = model

\* The similar tier answers from what the tracker says now.
SimilarIsTrue == VectorsTrue /\ MatrixFollows /\ PassComplete
=============================================================================
