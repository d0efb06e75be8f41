----------------------------- MODULE EventFeed -----------------------------
(***************************************************************************)
(* What `nuvim watch` promises to the pipeline that reads it.              *)
(*                                                                         *)
(* The editor sends numbered messages over a link.  The reader of the feed *)
(* sees a "ready" record, then the messages 1, 2, 3, ... with none missing *)
(* or repeated, and at most one terminal record, which comes last.  A feed *)
(* ends because of its terminal record or because of an interruption,      *)
(* never for no reason, and closing it takes the link down for good.       *)
(*                                                                         *)
(* An item is [k, n]: its kind and the number of the message it carries; a *)
(* record that is no message carries the number of the message before it.  *)
(***************************************************************************)
EXTENDS Naturals, Sequences

VARIABLES
    emitted,    \* number of messages the editor has sent
    seen,       \* items the reader has been given, oldest first
    status,     \* life cycle of the feed as its reader sees it
    link,       \* is the connection to the editor up?
    signal      \* has the user interrupted the command?

feedVars == <<emitted, seen, status, link, signal>>

Errors == {"bad", "garbage", "eof", "overflow"}
Numbered == {"event", "detach", "bad", "garbage"}
Terminal == Errors \cup {"detach"}
ItemKinds == Numbered \cup {"ready", "eof", "overflow"}

LastSeen == seen[Len(seen)]

\* Item m is a legal next item after the item p.
Continues(p, m) ==
    /\ p.k \notin Terminal
    /\ m.k # "ready"
    /\ m.n = (IF m.k \in Numbered THEN p.n + 1 ELSE p.n)

FeedInit ==
    /\ emitted = 0
    /\ seen = <<>>
    /\ status = "opening"
    /\ link = TRUE
    /\ signal = FALSE

Emit ==
    /\ link
    /\ emitted' = emitted + 1
    /\ UNCHANGED <<seen, status, link, signal>>

\* The link fails, or an overflow or the end of the command takes it down.
Disconnect ==
    /\ link
    /\ link' = FALSE
    /\ UNCHANGED <<emitted, seen, status, signal>>

Open ==
    /\ status = "opening"
    /\ status' = "open"
    /\ UNCHANGED <<emitted, seen, link, signal>>

Refuse ==
    /\ status = "opening"
    /\ status' = "failed"
    /\ link' = FALSE
    /\ UNCHANGED <<emitted, seen, signal>>

DeliverReady ==
    /\ status = "open"
    /\ seen = <<>>
    /\ seen' = <<[k |-> "ready", n |-> 0]>>
    /\ UNCHANGED <<emitted, status, link, signal>>

\* The next message, or the error that ends the feed.  An overflow is only
\* ever reported over a link that is already down.
Deliver ==
    /\ status = "open"
    /\ seen # <<>>
    /\ \E m \in [k : ItemKinds, n : 0..emitted] :
          /\ Continues(LastSeen, m)
          /\ m.k = "overflow" => ~link
          /\ seen' = Append(seen, m)
          /\ status' = (IF m.k \in Errors THEN "ended" ELSE "open")
    /\ UNCHANGED <<emitted, link, signal>>

EndAfterDetach ==
    /\ status = "open"
    /\ seen # <<>>
    /\ LastSeen.k = "detach"
    /\ status' = "ended"
    /\ UNCHANGED <<emitted, seen, link, signal>>

EndInterrupted ==
    /\ status = "open"
    /\ signal
    /\ status' = "ended"
    /\ UNCHANGED <<emitted, seen, link, signal>>

Interrupt ==
    /\ ~signal
    /\ signal' = TRUE
    /\ UNCHANGED <<emitted, seen, status, link>>

\* The pipeline lets go of the feed; it may do so before the feed has ended.
StartClose ==
    /\ status \in {"open", "ended"}
    /\ status' = "closing"
    /\ UNCHANGED <<emitted, seen, link, signal>>

FinishClose ==
    /\ status = "closing"
    /\ ~link
    /\ status' = "closed"
    /\ UNCHANGED <<emitted, seen, link, signal>>

FeedNext ==
    \/ Emit \/ Disconnect \/ Open \/ Refuse
    \/ DeliverReady \/ Deliver \/ EndAfterDetach \/ EndInterrupted
    \/ Interrupt \/ StartClose \/ FinishClose

FeedSpec == FeedInit /\ [][FeedNext]_feedVars

=============================================================================
