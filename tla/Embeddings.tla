------------------------------ MODULE Embeddings ------------------------------
(***************************************************************************)
(* The embeddings of notes.  An insert or update that brings content starts *)
(* a task that computes the embedding on a thread and writes it, in no order  *)
(* with the others; failures are logged and nothing tries again until the   *)
(* sweep of the next boot, which looks for notes without an embedding.      *)
(***************************************************************************)
EXTENDS Naturals, FiniteSets

CONSTANTS
    Memos,      \* ids of notes
    MaxText,    \* bound: texts of a note, numbered in the order of writing
    MaxTasks,   \* bound: tasks at once
    MaxBoots,   \* bound: boots of the service
    BatchLimit  \* notes one sweep takes at most

ASSUME EmbBounds == MaxText \in Nat \ {0} /\ MaxBoots \in Nat \ {0}

VARIABLES
    text,       \* the note's text, 0 when there is no such note
    gone,       \* notes deleted: an id is not used again
    vector,     \* the text its embedding was computed from, 0 for none
    tasks,      \* background tasks: [memo, of, kind, stage]
    sweep,      \* the one-shot process: "due", "running", "done"
    batch,      \* notes, with their texts, the sweep still has to encode
    boots,
    found,      \* history: what the sweep of this boot found missing
    unsure      \* history: notes whose embedding was last written by tasks
                \* that overlapped, failed, or were given part of the text

embVars == <<text, gone, vector, tasks, sweep, batch, boots, found, unsure>>

\* The text of an update that brings no title: an embedding of part of the note.
Part == MaxText + 1

EmbInit ==
    /\ text = [n \in Memos |-> 0]
    /\ vector = [n \in Memos |-> 0]
    /\ gone = {} /\ tasks = {} /\ sweep = "due" /\ batch = {} /\ boots = 1
    /\ found = {} /\ unsure = {}

Task(n, of, kind) == [memo |-> n, of |-> of, kind |-> kind, stage |-> "generate"]

\* Somebody else is about to write the embedding of n.
Contested(n) == (\E t \in tasks : t.memo = n) \/ (\E b \in batch : b.memo = n)

\* _schedule_embedding_insert, _schedule_embedding_refresh; a task begins with
\* the row it follows, so it may be lost or late before it is scheduled.
Schedule(n, of, kind) ==
    /\ Cardinality(tasks) < MaxTasks
    /\ tasks' = tasks \cup {Task(n, of, kind)}
    /\ unsure' = IF Contested(n) \/ of = Part THEN unsure \cup {n} ELSE unsure \ {n}

InsertMemo(n) ==
    /\ text[n] = 0 /\ n \notin gone
    /\ text' = [text EXCEPT ![n] = 1]
    /\ Schedule(n, 1, "insert")
    /\ UNCHANGED <<gone, vector, sweep, batch, boots, found>>

\* An insert without content schedules nothing.
InsertBlank(n) ==
    /\ text[n] = 0 /\ n \notin gone
    /\ text' = [text EXCEPT ![n] = 1]
    /\ unsure' = unsure \cup {n}
    /\ UNCHANGED <<gone, vector, tasks, sweep, batch, boots, found>>

\* An update with title and content, or with the content alone.
UpdateMemo(n, whole) ==
    /\ text[n] \in 1..(MaxText - 1)
    /\ text' = [text EXCEPT ![n] = @ + 1]
    /\ Schedule(n, IF whole THEN text[n] + 1 ELSE Part, "refresh")
    /\ UNCHANGED <<gone, vector, sweep, batch, boots, found>>

\* An update without content schedules nothing.
RetitleMemo(n) ==
    /\ text[n] \in 1..(MaxText - 1)
    /\ text' = [text EXCEPT ![n] = @ + 1]
    /\ unsure' = unsure \cup {n}
    /\ UNCHANGED <<gone, vector, tasks, sweep, batch, boots, found>>

\* The row of the embedding cascades with that of the note; the tasks go on.
DeleteMemo(n) ==
    /\ text[n] # 0
    /\ gone' = gone \cup {n}
    /\ text' = [text EXCEPT ![n] = 0]
    /\ vector' = [vector EXCEPT ![n] = 0]
    /\ UNCHANGED <<tasks, sweep, batch, boots, found, unsure>>

\* asyncio.to_thread(generate): the thread is done, the statement is next.
Generated(t) ==
    /\ t \in tasks /\ t.stage = "generate"
    /\ tasks' = (tasks \ {t}) \cup
                {[t EXCEPT !.stage = IF t.kind = "insert" THEN "store" ELSE "update"]}
    /\ UNCHANGED <<text, gone, vector, sweep, batch, boots, found, unsure>>

\* Seeded fault: a refresh without a row is given up.
UpdateVectorOnly(t) ==
    /\ t \in tasks /\ t.stage = "update"
    /\ vector' = IF vector[t.memo] # 0 THEN [vector EXCEPT ![t.memo] = t.of] ELSE vector
    /\ tasks' = tasks \ {t}
    /\ UNCHANGED <<text, gone, sweep, batch, boots, found, unsure>>

\* UPDATE of the row; without a row the ValueError leads to the INSERT.
UpdateVector(t) ==
    /\ t \in tasks /\ t.stage = "update"
    /\ IF vector[t.memo] # 0
       THEN /\ vector' = [vector EXCEPT ![t.memo] = t.of]
            /\ tasks' = tasks \ {t}
       ELSE /\ tasks' = (tasks \ {t}) \cup {[t EXCEPT !.stage = "store"]}
            /\ UNCHANGED vector
    /\ UNCHANGED <<text, gone, sweep, batch, boots, found, unsure>>

\* The INSERT: refused for a second row and for a note that is gone.
AfterStore(n, of) == IF vector[n] = 0 /\ text[n] # 0 THEN [vector EXCEPT ![n] = of] ELSE vector

StoreVector(t) ==
    /\ t \in tasks /\ t.stage = "store"
    /\ vector' = AfterStore(t.memo, t.of)
    /\ tasks' = tasks \ {t}
    /\ UNCHANGED <<text, gone, sweep, batch, boots, found, unsure>>

\* The model or Postgres fails: logged, and forgotten.
TaskFails(t) ==
    /\ t \in tasks
    /\ tasks' = tasks \ {t}
    /\ unsure' = unsure \cup {t.memo}
    /\ UNCHANGED <<text, gone, vector, sweep, batch, boots, found>>

\* MissingEmbeddingProcess.run: the scan, at most a batch of it.
ScanMissing ==
    LET missing == {n \in Memos : text[n] # 0 /\ vector[n] = 0}
    IN /\ sweep = "due"
       /\ \E chosen \in SUBSET missing :
             /\ IF Cardinality(missing) <= BatchLimit THEN chosen = missing
                                                      ELSE Cardinality(chosen) = BatchLimit
             /\ batch' = {[memo |-> n, of |-> text[n]] : n \in chosen}
             /\ found' = chosen
             /\ unsure' = (unsure \ chosen) \cup
                          {n \in chosen : \E t \in tasks : t.memo = n}
       /\ sweep' = "running"
       /\ UNCHANGED <<text, gone, vector, tasks, boots>>

\* Seeded fault: the sweep updates rows where it should insert them.
EncodeByUpdate(b, fails) ==
    /\ sweep = "running" /\ b \in batch
    /\ vector' = IF ~fails /\ vector[b.memo] # 0 THEN [vector EXCEPT ![b.memo] = b.of] ELSE vector
    /\ found' = IF fails THEN found \ {b.memo} ELSE found
    /\ unsure' = IF fails THEN unsure \cup {b.memo} ELSE unsure
    /\ batch' = batch \ {b}
    /\ UNCHANGED <<text, gone, tasks, sweep, boots>>

\* One note of the batch; a failure goes on to the next.
Encode(b, fails) ==
    /\ sweep = "running" /\ b \in batch
    /\ vector' = IF fails THEN vector ELSE AfterStore(b.memo, b.of)
    /\ found' = IF fails THEN found \ {b.memo} ELSE found
    /\ unsure' = IF fails THEN unsure \cup {b.memo} ELSE unsure
    /\ batch' = batch \ {b}
    /\ UNCHANGED <<text, gone, tasks, sweep, boots>>

SweepEnds ==
    /\ sweep = "running" /\ batch = {}
    /\ sweep' = "done"
    /\ UNCHANGED <<text, gone, vector, tasks, batch, boots, found, unsure>>

\* The service dies and boots again: its tasks are lost, the sweep is due.
Reboot ==
    /\ boots < MaxBoots
    /\ boots' = boots + 1
    /\ unsure' = unsure \cup {t.memo : t \in tasks} \cup {b.memo : b \in batch}
    /\ tasks' = {} /\ batch' = {} /\ found' = {} /\ sweep' = "due"
    /\ UNCHANGED <<text, gone, vector>>

EmbNext ==
    \/ \E n \in Memos : InsertMemo(n) \/ InsertBlank(n) \/ RetitleMemo(n) \/ DeleteMemo(n)
                        \/ \E whole \in BOOLEAN : UpdateMemo(n, whole)
    \/ \E t \in tasks : Generated(t) \/ UpdateVector(t) \/ StoreVector(t) \/ TaskFails(t)
    \/ ScanMissing
    \/ \E b \in batch, fails \in BOOLEAN : Encode(b, fails)
    \/ SweepEnds
    \/ Reboot

EmbSpec == EmbInit /\ [][EmbNext]_embVars

-----------------------------------------------------------------------------
(* Rows, tasks and the sweep have their types. *)
EmbTypeOK ==
    /\ text \in [Memos -> 0..MaxText]
    /\ vector \in [Memos -> 0..Part]
    /\ gone \subseteq Memos
    /\ tasks \subseteq [memo : Memos, of : 1..Part, kind : {"insert", "refresh"},
                        stage : {"generate", "update", "store"}]
    /\ sweep \in {"due", "running", "done"}
    /\ batch \subseteq [memo : Memos, of : 1..MaxText]
    /\ boots \in 1..MaxBoots /\ found \subseteq Memos /\ unsure \subseteq Memos

(* The embedding is that of the note (note_facade.py, embedding.py): with no *)
(* task left for a note, its embedding was computed from its present text,   *)
(* unless its tasks overlapped or failed, or an update brought only part of  *)
(* the text.  The next undisturbed full update puts it right again.          *)
EmbeddingIsCurrent ==
    \A n \in Memos \ unsure : (text[n] # 0 /\ ~Contested(n)) => vector[n] = text[n]

(* Backfill (missing_embedding_process.py): when the sweep of a boot is      *)
(* over, every note it found missing and could encode has an embedding,      *)
(* whichever task raced it to the insert, or is deleted.                     *)
SweepFills ==
    sweep = "done" => \A n \in found : text[n] # 0 => vector[n] # 0
=============================================================================
