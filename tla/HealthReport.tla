---------------------------- MODULE HealthReport ----------------------------
(***************************************************************************)
(* What the health thread says: QuitProtocol extended with the contents of *)
(* the messages.  src/health.c samples the status and the counters of the  *)
(* data ring one by one, while upstream writes blocks, the main thread     *)
(* reads them and, when it stops, writes the status without a lock.        *)
(*                                                                         *)
(* The counters belong to psrdada; a block can be written only while fewer *)
(* than NBufs blocks wait to be read.                                      *)
(***************************************************************************)
EXTENDS QuitProtocol, Sequences

CONSTANTS
  NBufs,     \* data_nbufs, the blocks the ring has room for
  MaxBlocks  \* how many blocks upstream sends

ASSUME RingAssumption == NBufs \in Nat \ {0} /\ MaxBlocks \in Nat

VARIABLES
  status,   \* health_args.status, written by main
  written,  \* the write count of the data block
  read,     \* the read count of its only reader
  next,     \* the next field of Order to be sampled
  data,     \* the message being filled in, a local of health_thread_fn
  last      \* the last message sent

ring_vars == <<written, read>>
report_vars == <<status, next, data, last>>
all_vars == <<vars, ring_vars, report_vars>>

Statuses == {"OFFLINE", "RUNNING", "SHUTTING_DOWN"}

Messages ==
  [ status : Statuses, written : Nat, read : Nat, full : Int, clear : Int ]

NoMessage ==
  [status |-> "OFFLINE", written |-> 0, read |-> 0, full |-> 0, clear |-> 0]

\* Variants: the reader's count first; the status last.
OrderReadFirst == <<"status", "read", "written", "full", "clear">>
OrderStatusLast == <<"written", "read", "full", "clear", "status">>

\* The order in which the fields are sampled.
Order == <<"status", "written", "read", "full", "clear">>

-----------------------------------------------------------------------------
(* The data ring *)

UpstreamWrites ==
  /\ process = "running"
  /\ written < MaxBlocks /\ written - read < NBufs
  /\ written' = written + 1
  /\ UNCHANGED <<vars, read, report_vars>>

\* dada_client_read: a block has been passed to dada_dbfil_io and is cleared.
MainReads ==
  /\ At("main", "read")
  /\ read < written
  /\ read' = read + 1
  /\ UNCHANGED <<vars, written, report_vars>>

-----------------------------------------------------------------------------
(* The health thread *)

\* One field takes the value that it has at this moment.
Sample(field, value) ==
  /\ At("health", "collect")
  /\ next <= Len(Order) /\ Order[next] = field
  /\ data' = [data EXCEPT ![field] = value]
  /\ next' = next + 1
  /\ UNCHANGED <<vars, ring_vars, status, last>>

SampleStatus == Sample("status", status)
SampleWritten == Sample("written", written)
SampleRead == Sample("read", read)
SampleFull == Sample("full", written - read)
SampleClear == Sample("clear", NBufs - (written - read))

Collected ==
  /\ Collect
  /\ next > Len(Order)
  /\ next' = 1
  /\ UNCHANGED <<ring_vars, status, data, last>>

Sent ==
  /\ Send
  /\ last' = data
  /\ UNCHANGED <<ring_vars, status, next, data>>

-----------------------------------------------------------------------------
(* main *)

LoopLeft ==
  /\ Loop
  /\ status' = IF quit["main"] THEN "SHUTTING_DOWN" ELSE status
  /\ UNCHANGED <<ring_vars, next, data, last>>

\* Everything else is as in QuitProtocol.
Others ==
  /\ \/ \E f \in Frames :
          Lock(f) \/ Store(f) \/ Unlock(f) \/ (f \in Threads /\ Load(f))
            \/ (f \in Handlers /\ HandlerLogs(f))
     \/ Initialise \/ Install \/ Setup \/ Launch \/ Read \/ Join
     \/ Disconnect \/ CloseLog \/ DestroyQuit \/ Return \/ MainFails
     \/ OpenSocket \/ HealthFails \/ Sleep
     \/ \E t \in Threads : Deliver(t)
     \/ Ended
  /\ UNCHANGED <<ring_vars, report_vars>>

ReportInit ==
  /\ Init
  /\ status = "RUNNING"
  /\ written = 0 /\ read = 0
  /\ next = 1
  /\ data = NoMessage
  /\ last = NoMessage

ReportNext ==
  \/ UpstreamWrites \/ MainReads
  \/ SampleStatus \/ SampleWritten \/ SampleRead \/ SampleFull \/ SampleClear
  \/ Collected \/ Sent \/ LoopLeft \/ Others

ReportSpec == ReportInit /\ [][ReportNext]_all_vars

\* A thread that goes on in QuitProtocol goes on here: the health thread
\* cannot take Collect before it has sampled all the fields.
ReportFairSpec == ReportSpec /\ Fairness

-----------------------------------------------------------------------------
(* Properties *)

ReportTypeOK ==
  /\ status \in Statuses
  /\ written \in Nat /\ read \in Nat
  /\ next \in 1 .. Len(Order) + 1
  /\ data \in Messages /\ last \in Messages

\* A message that says SHUTTING_DOWN is a final account: the blocks it reports
\* as read are all the program will ever have read.  The status is written
\* after the last dada_client_read, and sampled before the counters.
ShutdownIsFinal == last.status = "SHUTTING_DOWN" => last.read = read

\* The backlog a message shows is never more than the ring can hold, although
\* the two counters are not sampled together.  (Their difference may well be
\* negative: health.c samples the reader's count second.)
BacklogFitsRing == last.written - last.read <= NBufs

-----------------------------------------------------------------------------
(* Why the messages are right: an inductive invariant *)

RingInv == read <= written /\ written - read <= NBufs

\* The counters of a message bound the present ones; once both are sampled
\* their difference is settled.
Sampled(m, complete) ==
  /\ m.written <= written /\ m.read <= read
  /\ complete => m.written - m.read <= NBufs

\* Main past its loop reads no more.
Stopped == pc["main"] \in {"join"} \cup Stopping

FinalCount(m, complete) ==
  m.status = "SHUTTING_DOWN" =>
    /\ status = "SHUTTING_DOWN"
    /\ complete => m.read = read

\* data is complete except while the counters are being sampled.
ReadSampled == next = 1 \/ next > 3

ReportInv ==
  /\ SafetyInv /\ ReportTypeOK /\ RingInv
  /\ status = "SHUTTING_DOWN" => Stopped
  /\ pc["health"] # "collect" => next = 1
  /\ Sampled(data, ReadSampled) /\ FinalCount(data, ReadSampled)
  /\ Sampled(last, TRUE) /\ FinalCount(last, TRUE)
=============================================================================
