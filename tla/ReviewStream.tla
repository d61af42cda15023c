---------------------------- MODULE ReviewStream ----------------------------
(***************************************************************************)
(* Server-sent progress of one review, on top of ReviewJob: what clients   *)
(* of GET /review-jobs/{id}/stream are told.                               *)
(*                                                                         *)
(* Every announcement first overwrites a snapshot key, which expires, and  *)
(* is then published on a Redis channel, which keeps nothing.  A stream    *)
(* reads the database (the fallback), subscribes, reads the snapshot, and  *)
(* only then the messages the subscription has buffered in the meantime.   *)
(***************************************************************************)
EXTENDS ReviewJob, Sequences

CONSTANTS Clients,      \* streams that may be opened
          NoEvent       \* no snapshot under the key

\* No snapshot is no event; where the clients see statuses it is no status.
ASSUME StreamAssumption == NoEvent \notin Event \cup ReviewJobStatus

VARIABLES
  snapshot,   \* the snapshot key: the event set last, or NoEvent
  stream,     \* where each client's stream is
  fallback,   \* the event each opening stream built from the database, or NoEvent
  inbox,      \* messages buffered by each subscription
  outcome     \* the terminal event that closed each stream, or NoEvent

clients == <<stream, fallback, inbox, outcome>>
streamVars == <<vars, snapshot, clients>>

StreamInit ==
  /\ Init
  /\ snapshot = NoEvent
  /\ stream = [c \in Clients |-> "off"]
  /\ fallback = [c \in Clients |-> NoEvent]
  /\ inbox = [c \in Clients |-> <<>>]
  /\ outcome = [c \in Clients |-> NoEvent]

IsTerminal(e) == e.kind \in {"completed", "failed"}

\* Streams the channel delivers to: between SUBSCRIBE and the end.
Subscribed == {"subscribed", "streaming"}

Move(c, s) == stream' = [stream EXCEPT ![c] = s]

\* Send event e; a terminal one ends the stream, in the given state, and the
\* subscription with what it still holds.  rest: the messages after e.
Show(c, e, rest, end) ==
  IF IsTerminal(e)
    THEN /\ outcome' = [outcome EXCEPT ![c] = e]
         /\ inbox' = [inbox EXCEPT ![c] = <<>>]
         /\ Move(c, end)
    ELSE /\ inbox' = [inbox EXCEPT ![c] = rest]
         /\ Move(c, "streaming")
         /\ UNCHANGED outcome

-----------------------------------------------------------------------------
(***************************************************************************)
(* The announcing side.                                                    *)
(***************************************************************************)

StoreSnapshot(a) ==
  /\ SetSnapshot(a)
  /\ snapshot' = event[a]
  /\ UNCHANGED clients

Deliver(a) ==
  /\ PublishEvent(a)
  /\ inbox' = [c \in Clients |->
                 IF stream[c] \in Subscribed THEN Append(inbox[c], event[a]) ELSE inbox[c]]
  /\ UNCHANGED <<snapshot, stream, fallback, outcome>>

\* Every other step of the job leaves Redis and the streams alone.
Elsewhere ==
  /\ \/ User \/ Enqueue \/ WorkerStep \/ DeleteStep \/ Kill
     \/ \E p \in Patches : PatchStep(p)
     \/ \E a \in Actors : DropEvent(a) \/ Crash(a)
  /\ UNCHANGED <<snapshot, clients>>

\* The key lives an hour, far longer than a stream takes to open.
Expire ==
  /\ snapshot # NoEvent
  /\ \A c \in Clients : stream[c] \notin {"authorized", "subscribed"}
  /\ snapshot' = NoEvent
  /\ UNCHANGED <<vars, clients>>

-----------------------------------------------------------------------------
(***************************************************************************)
(* A stream.                                                               *)
(***************************************************************************)

\* get_progress_snapshot: authorize, and read the job and its newest history.
Connect(c) ==
  /\ stream[c] = "off" /\ row.exists
  /\ fallback' = [fallback EXCEPT ![c] = EventFor(row.status, history.progress)]
  /\ Move(c, "authorized")
  /\ UNCHANGED <<vars, snapshot, inbox, outcome>>

Subscribe(c) ==
  /\ stream[c] = "authorized"
  /\ Move(c, "subscribed")
  /\ UNCHANGED <<vars, snapshot, fallback, inbox, outcome>>

\* A slip of ReadSnapshot: the stream starts with what the database said.
ReadSnapshotNever(c) ==
  /\ stream[c] = "subscribed"
  /\ Show(c, fallback[c], inbox[c], "answered")
  /\ fallback' = [fallback EXCEPT ![c] = NoEvent]
  /\ UNCHANGED <<vars, snapshot>>

\* The first event: the snapshot or, without one, the fallback.
ReadSnapshot(c) ==
  /\ stream[c] = "subscribed"
  /\ IF snapshot # NoEvent
       THEN Show(c, snapshot, inbox[c], "closed")
       ELSE Show(c, fallback[c], inbox[c], "answered")
  /\ fallback' = [fallback EXCEPT ![c] = NoEvent]
  /\ UNCHANGED <<vars, snapshot>>

Receive(c) ==
  /\ stream[c] = "streaming"
  /\ inbox[c] # <<>>
  /\ Show(c, Head(inbox[c]), Tail(inbox[c]), "closed")
  /\ UNCHANGED <<vars, snapshot, fallback>>

\* The client leaves, or a Redis error ends its stream.
Disconnect(c) ==
  /\ stream[c] \in {"authorized"} \cup Subscribed
  /\ Move(c, "gone")
  /\ fallback' = [fallback EXCEPT ![c] = NoEvent]
  /\ inbox' = [inbox EXCEPT ![c] = <<>>]
  /\ UNCHANGED <<vars, snapshot, outcome>>

ClientStep(c) == Subscribe(c) \/ ReadSnapshot(c) \/ Receive(c)

StreamNext ==
  \/ Elsewhere \/ Expire
  \/ \E a \in Actors : StoreSnapshot(a) \/ Deliver(a)
  \/ \E c \in Clients : Connect(c) \/ ClientStep(c) \/ Disconnect(c)

StreamSpec == StreamInit /\ [][StreamNext]_streamVars

(***************************************************************************)
(* Celery hands out the task, the worker and the API keep executing, every *)
(* call of theirs ends (each has a timeout), and open streams are served.  *)
(***************************************************************************)
Announces(a) == StoreSnapshot(a) \/ Deliver(a)

FairStreamSpec ==
  /\ StreamSpec
  /\ WF_streamVars(Enqueue /\ UNCHANGED <<snapshot, clients>>)
  /\ WF_streamVars((WorkerStep /\ UNCHANGED <<snapshot, clients>>) \/ Announces("worker"))
  /\ WF_streamVars((DeleteStep /\ UNCHANGED <<snapshot, clients>>) \/ Announces("delete"))
  /\ \A c \in Clients : WF_streamVars(ClientStep(c))

-----------------------------------------------------------------------------

StreamTypeOK ==
  /\ snapshot \in Event \cup {NoEvent}
  /\ stream \in [Clients -> {"off", "authorized", "gone", "closed", "answered"}
                              \cup Subscribed]
  /\ fallback \in [Clients -> Event \cup {NoEvent}]
  /\ inbox \in [Clients -> Seq(Event)]
  /\ outcome \in [Clients -> Event \cup {NoEvent}]

Interrupted == crashes > 0 \/ drops > 0

(***************************************************************************)
(* No stream misses the outcome: once a terminal event is announced, every *)
(* open stream has it buffered, however the announcement interleaved with  *)
(* the stream's opening - as long as Redis works and the job is not being  *)
(* deleted (stream_job_progress subscribes before it reads the snapshot).  *)
(***************************************************************************)
NoMissedOutcome ==
  row.exists /\ Unpatched /\ ~Interrupted /\ told # "none" /\ pc["worker"] = "done" =>
    \A c \in Clients : stream[c] = "streaming" =>
      \E i \in 1..Len(inbox[c]) : IsTerminal(inbox[c][i])

(***************************************************************************)
(* A stream closed by an announcement told its client what the database    *)
(* says, and goes on saying.  Streams closed by their fallback are the     *)
(* exception: a COMPLETED read there may still be followed by a failure.   *)
(***************************************************************************)
ToldTheTruth ==
  \A c \in Clients :
    stream[c] = "closed" /\ row.exists /\ Unpatched => outcome[c].status = row.status

(***************************************************************************)
(* A stream that is open when the job ends is closed, with the outcome,    *)
(* unless Redis lost the announcement, a process crashed, or an exception  *)
(* ended the task before it had announced the failure it stored.           *)
(***************************************************************************)
StreamCloses ==
  \A c \in Clients :
    stream[c] = "streaming" /\ row.exists /\ row.status \in Terminal
      ~> \/ stream[c] \in {"closed", "answered", "gone"}
         \/ ~row.exists \/ Interrupted \/ pc["worker"] = "escaped"

(***************************************************************************)
(* A review whose task was enqueued comes to an end, unless a process      *)
(* crashes or the task dies of an exception that nothing handles: one      *)
(* raised before run() enters its try block, other than by the embedding   *)
(* store, or a second one while the first is being handled.  Nothing       *)
(* takes up the job such a task leaves active.                             *)
(***************************************************************************)
ReviewEnds ==
  pc["worker"] = "queued" ~>
    row.status \in Terminal \/ ~row.exists \/ crashes > 0 \/ pc["worker"] = "escaped"

(***************************************************************************)
(* Without the status endpoint, what is stored and announced keeps         *)
(* ReviewLifecycle.                                                        *)
(***************************************************************************)
JobStatus == IF row.exists THEN row.status ELSE NoEvent

Lifecycle == INSTANCE ReviewLifecycle
  WITH status <- JobStatus,
       created <- pc["worker"] # "new",
       NoJob <- NoEvent

KeepsLifecycle == Lifecycle!Spec

-----------------------------------------------------------------------------
(***************************************************************************)
(* The inductive strengthening of the invariants above, next to IInv of    *)
(* ReviewJob.                                                              *)
(***************************************************************************)

\* An event ends a stream exactly when it announces an outcome.
KindInv == \A a \in Actors : IsTerminal(event[a]) <=> event[a].status \in Terminal

\* There are no streams of a job that does not exist yet.
NoStreamYet ==
  pc["worker"] = "new" =>
    snapshot = NoEvent /\ \A c \in Clients : stream[c] = "off" /\ inbox[c] = <<>>

\* A stream that has not read the snapshot yet has a fallback.
FallbackInv ==
  \A c \in Clients : stream[c] \in {"authorized", "subscribed"} => fallback[c] \in Event

\* There is one outcome, which the worker announces last.
OutcomeInv ==
  row.exists /\ Unpatched =>
    /\ told # "none" => /\ row.status = told
                        /\ pc["worker"] \in {"publish", "done", "killed"}
                        /\ event["worker"].status = told
    /\ pc["worker"] = "publish" /\ event["worker"].status \in Terminal => told # "none"

\* Whatever a client may still read of an outcome, or was told, is that one.
TruthInv ==
  row.exists /\ Unpatched =>
    /\ snapshot # NoEvent /\ IsTerminal(snapshot) => snapshot.status = told
    /\ \A c \in Clients :
         /\ \A i \in 1..Len(inbox[c]) : IsTerminal(inbox[c][i]) => inbox[c][i].status = told
         /\ stream[c] = "closed" => outcome[c].status = told /\ told # "none"

\* Once the outcome is in the snapshot, a stream that is opening will read it
\* there or, when the key has expired, has read it in the database.
DeliveryInv ==
  row.exists /\ Unpatched /\ ~Interrupted /\ told # "none" =>
    /\ snapshot # NoEvent => IsTerminal(snapshot)
    /\ \A c \in Clients : stream[c] \in {"authorized", "subscribed"} =>
         snapshot # NoEvent \/ IsTerminal(fallback[c])

StreamInv == /\ StreamTypeOK /\ KindInv /\ NoStreamYet /\ FallbackInv /\ OutcomeInv
             /\ TruthInv /\ DeliveryInv /\ NoMissedOutcome

=============================================================================
