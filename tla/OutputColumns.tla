---------------------------- MODULE OutputColumns ----------------------------
(***************************************************************************)
(* What is in the result and usage columns of a job that WorkerPool takes  *)
(* for one value. store_annotation (app/queue.py) writes them through the  *)
(* session a worker opened for its attempt, and a flush writes only the    *)
(* columns that differ from what the session loaded: expire_on_commit is   *)
(* off (app/db.py), so that is the row as the attempt began.               *)
(***************************************************************************)
EXTENDS WorkerPool

CONSTANTS Results, Usages   \* what an annotator may return

VARIABLES columns,   \* job -> its result and usage
          session,   \* worker -> the columns its session has loaded, or NoRow
          output     \* job -> what its columns were last to be set to

outputVars == <<columns, session, output>>

Unset == [result |-> "unset", usage |-> "unset"]
NoRow == [result |-> "no row", usage |-> "no row"]

Outputs == [result : Results, usage : Usages]

OutputInit == /\ Init
              /\ columns = [j \in Jobs |-> Unset]
              /\ session = [w \in Workers |-> NoRow]
              /\ output = [j \in Jobs |-> Unset]

\* One session for all the attempts of a worker.
SessionAfter_Kept(loaded) == loaded

\* The session is closed when the attempt is over, in whatever way.
SessionAfter(loaded) ==
  [w \in Workers |-> IF task'[w].pc \in Pipeline THEN loaded[w] ELSE NoRow]

\* db.get at the beginning of process_claimed_job: its SELECT. A session that
\* has loaded the row does not ask for it again.
LoadJob(w) ==
  /\ task[w].pc = "claimed" /\ session[w] = NoRow
  /\ session' = [session EXCEPT ![w] = columns[task[w].job]]
  /\ UNCHANGED <<vars, columns, output>>

\* The UPDATE of a flush.
Flushed(row, loaded, new) ==
  [c \in DOMAIN new |-> IF new[c] = loaded[c] THEN row[c] ELSE new[c]]

\* store_annotation, with what the annotator has returned.
StoreOutput(w) ==
  LET j == task[w].job
  IN  /\ StoreAnnotation(w)
      /\ \E new \in Outputs :
           /\ session' = SessionAfter([session EXCEPT ![w] = new])
           /\ IF jobs' = jobs THEN UNCHANGED <<columns, output>>
              ELSE /\ columns' = [columns EXCEPT ![j] = Flushed(@, session[w], new)]
                   /\ output' = [output EXCEPT ![j] = new]

\* The other steps of WorkerPool leave the columns alone. The first stage is
\* committed after the row is loaded.
Storing(w) ==
  task[w].pc = "storing_result" /\ task'[w].pc \in {"result_stored", "retrying"}
Unloaded(w) ==
  task[w].pc = "claimed" /\ session[w] = NoRow /\ task'[w].pc = "validating_file"

OtherStep == /\ Next
             /\ \A w \in Workers : ~Storing(w) /\ ~Unloaded(w)
             /\ session' = SessionAfter(session)
             /\ UNCHANGED <<columns, output>>

OutputNext == OtherStep \/ \E w \in Workers : LoadJob(w) \/ StoreOutput(w)

OutputSpec == OutputInit /\ [][OutputNext]_<<vars, outputVars>>

-----------------------------------------------------------------------------
(* Properties *)

\* README 453: the usage stored with a result is that of the attempt that
\* produced it. What a completed job shows is one answer of the annotator, not
\* columns of two, though each flush leaves out what it believes to be there.
ResultHasItsUsage ==
  \A j \in Jobs : jobs[j].status = "completed" => columns[j] = output[j]
-----------------------------------------------------------------------------
(* Inductive strengthening *)

Columns == [result : Results \cup {"unset"}, usage : Usages \cup {"unset"}]

\* What a session believes is what is there, from the stage after db.get to the
\* end of the attempt; outside of an attempt no session is open.
SessionFits(w) ==
  /\ task[w].pc \notin Pipeline => session[w] = NoRow
  /\ task[w].pc = "claimed" => session[w] \in {NoRow, columns[task[w].job]}
  /\ task[w].pc \in Pipeline \ {"claimed"} => session[w] = columns[task[w].job]

\* A result is of the attempt the row counts or of an earlier one, and of an
\* earlier one up to the UPDATE of store_annotation, which changes the row.
ResultsInv ==
  /\ \A j \in Jobs : jobs[j].result <= jobs[j].attempts
  /\ \A w \in Workers : task[w].pc \in Pipeline \ {"result_stored"} =>
                          jobs[task[w].job].result < task[w].attempt

ColumnsInv == /\ columns \in [Jobs -> Columns] /\ output = columns
              /\ session \in [Workers -> Columns \cup {NoRow}]
              /\ \A w \in Workers : SessionFits(w)
=============================================================================
