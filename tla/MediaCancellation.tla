------------------------- MODULE MediaCancellation -------------------------
(***************************************************************************)
(* MediaManager with requests that are abandoned.  A deletion runs in the  *)
(* future of its HTTP request; when the client goes away the future is     *)
(* dropped, and with it the content lock and the reclaim transaction.  The *)
(* unlink is a job of tokio's blocking pool (tokio::fs::remove_file),      *)
(* which a dropped future does not take back.                              *)
(***************************************************************************)
EXTENDS MediaManager

VARIABLE detached   \* media whose unlink was handed over and still runs

\* The request future is dropped while it awaits the unlink.
Abandon(c) ==
    /\ pc[c] = "unlinking"
    /\ detached' = detached \cup {job[c].media}
    /\ leaked' = leaked \cup {job[c].media}
    /\ Finish(c)
    /\ UNCHANGED <<files, db>>

\* The blocking pool gets to the job.
RunDetached(m) ==
    /\ m \in detached
    /\ detached' = detached \ {m}
    /\ files' = files \ {m}
    /\ UNCHANGED <<db, contentLock, writer, task, leaked>>

CancelInit == Init /\ detached = {}

CancelNext ==
    \/ Next /\ UNCHANGED detached
    \/ \E c \in Procs : Abandon(c)
    \/ \E m \in Media : RunDetached(m)

CancelSpec == CancelInit /\ [][CancelNext]_<<vars, detached>>
=============================================================================
