---------------------------- MODULE TicketFiles ----------------------------
(***************************************************************************)
(* The ticket of one booking: its file in the storage and the              *)
(* ticket_file_url that points to it, as upload_ticket, replace_file and   *)
(* delete_file change them.                                                *)
(*                                                                         *)
(* These handlers are coroutines that hold no row lock: at each await      *)
(* (storage.save, storage.delete) other requests run, of this process or   *)
(* of another, and nothing is read again afterwards.  Storage and database *)
(* share no transaction, so a failure or a crash between two steps leaves  *)
(* what the first one did.  The booking itself is closed, reopened and     *)
(* deleted by others; module Bookings has the details.                     *)
(***************************************************************************)
CONSTANTS Requests,   \* concurrent requests
          Files,      \* storage paths; an upload's uuid4 path is always a new one
          Ops,        \* the operations requests may call
          None        \* no file

ASSUME TicketAssumption ==
  /\ Ops \subseteq {"upload_ticket", "replace_file", "delete_file"}
  /\ None \notin Files

VARIABLES
  booking,  \* "open": ticket operations are accepted; "closed"; "deleted"
  url,      \* the path in the booking's ticket_file_url, or None
  store,    \* the paths that exist in the storage
  fresh,    \* the paths never used so far
  req       \* req[r]: what request r does, with its copies

vars == <<booking, url, store, fresh, req>>

\* pc: the await a request is in, or the commit it is about to make.
Request == [op : {"upload_ticket", "replace_file", "delete_file", "none"},
            pc : {"idle", "save", "commit", "cleanup", "erase", "clear"},
            old : Files \cup {None},     \* the url it loaded
            new : Files \cup {None}]     \* the path it saves to

Idle == [op |-> "none", pc |-> "idle", old |-> None, new |-> None]

Init ==
  /\ booking = "open"
  /\ url = None
  /\ store = {}
  /\ fresh = Files
  /\ req = [r \in Requests |-> Idle]

At(r, p) == req[r].pc = p
Goto(r, p) == req' = [req EXCEPT ![r].pc = p]
End(r) == req' = [req EXCEPT ![r] = Idle]

-----------------------------------------------------------------------------
(* The checks, up to the first await.                                      *)

\* upload_ticket: only a booking without a ticket; replace_file: only one with.
StartSave(r, f, o) ==
  /\ At(r, "idle")
  /\ o \in Ops
  /\ booking = "open"
  /\ \/ o = "upload_ticket" /\ url = None
     \/ o = "replace_file" /\ url # None
  /\ f \in fresh
  /\ fresh' = fresh \ {f}
  /\ req' = [req EXCEPT ![r] = [op |-> o, pc |-> "save", old |-> url, new |-> f]]
  /\ UNCHANGED <<booking, url, store>>

StartDelete(r) ==
  /\ At(r, "idle")
  /\ "delete_file" \in Ops
  /\ booking = "open"
  /\ url # None
  /\ req' = [req EXCEPT ![r] =
       [op |-> "delete_file", pc |-> "erase", old |-> url, new |-> None]]
  /\ UNCHANGED <<booking, url, store, fresh>>

-----------------------------------------------------------------------------
(* upload_ticket and replace_file.                                         *)

Save(r) ==
  /\ At(r, "save")
  /\ store' = store \cup {req[r].new}
  /\ Goto(r, "commit")
  /\ UNCHANGED <<booking, url, fresh>>

\* The save raises; a local file may be there, cut short.
SaveFails(r) ==
  /\ At(r, "save")
  /\ store' \in {store, store \cup {req[r].new}}
  /\ End(r)
  /\ UNCHANGED <<booking, url, fresh>>

\* Mutant: a replacement forgets the old file.
CommitAndKeepOld(r) ==
  /\ At(r, "commit")
  /\ booking # "deleted"
  /\ url' = req[r].new
  /\ booking' \in IF req[r].op = "upload_ticket" THEN {booking, "open"} ELSE {booking}
  /\ End(r)
  /\ UNCHANGED <<store, fresh>>

\* The UPDATE of the url.  An upload that loaded a PROCESSING booking also sets
\* it CONFIRMED, which opens a booking closed meanwhile.  A deleted booking
\* fails the commit (Abort).
CommitNew(r) ==
  /\ At(r, "commit")
  /\ booking # "deleted"
  /\ url' = req[r].new
  /\ booking' \in IF req[r].op = "upload_ticket" THEN {booking, "open"} ELSE {booking}
  /\ IF req[r].op = "replace_file" THEN Goto(r, "cleanup") ELSE End(r)
  /\ UNCHANGED <<store, fresh>>

\* Mutant: the path to remove is read from the booking after the commit.
CleanupReloaded(r) ==
  /\ At(r, "cleanup")
  /\ store' = store \ {url}
  /\ End(r)
  /\ UNCHANGED <<booking, url, fresh>>

\* replace_file removes the old file last.
Cleanup(r) ==
  /\ At(r, "cleanup")
  /\ store' = store \ {req[r].old}
  /\ End(r)
  /\ UNCHANGED <<booking, url, fresh>>

-----------------------------------------------------------------------------
(* delete_file.                                                            *)

Erase(r) ==
  /\ At(r, "erase")
  /\ store' = store \ {req[r].old}
  /\ Goto(r, "clear")
  /\ UNCHANGED <<booking, url, fresh>>

Clear(r) ==
  /\ At(r, "clear")
  /\ booking # "deleted"
  /\ url' = None
  /\ End(r)
  /\ UNCHANGED <<booking, store, fresh>>

-----------------------------------------------------------------------------
(* Failures and the rest of the system.                                    *)

\* Any other end: the file is refused, a storage or database call raises, the
\* client goes away, the process dies.
Abort(r) ==
  /\ ~At(r, "idle")
  /\ End(r)
  /\ UNCHANGED <<booking, url, store, fresh>>

CloseBooking ==
  /\ booking = "open"
  /\ booking' = "closed"
  /\ UNCHANGED <<url, store, fresh, req>>

\* The row goes; nothing removes the file.
DeleteBooking ==
  /\ booking = "closed"
  /\ booking' = "deleted"
  /\ url' = None
  /\ UNCHANGED <<store, fresh, req>>

Next ==
  \/ \E r \in Requests :
       \/ \E f \in Files, o \in Ops : StartSave(r, f, o)
       \/ StartDelete(r)
       \/ Save(r) \/ SaveFails(r) \/ CommitNew(r) \/ Cleanup(r)
       \/ Erase(r) \/ Clear(r)
       \/ Abort(r)
  \/ CloseBooking
  \/ DeleteBooking

Spec == Init /\ [][Next]_vars

-----------------------------------------------------------------------------
(* Properties.                                                             *)

TypeOK ==
  /\ booking \in {"open", "closed", "deleted"}
  /\ url \in Files \cup {None}
  /\ store \subseteq Files
  /\ fresh \subseteq Files
  /\ req \in [Requests -> Request]

\* The url leads to a file.
Served == url # None => url \in store

\* admin_routes.py, lines 670 and 671: a failed replacement never leaves the
\* booking without its ticket.  Stated for every interleaving of uploads and
\* replacements, with failures and crashes anywhere, as long as no delete_file
\* runs: once there is a ticket there is one as long as the booking exists.
TicketStays ==
  [][url # None /\ booking' # "deleted" => url' # None /\ Served']_vars

\* With delete_file running too, the only step that leaves the url without its
\* file is delete_file's own removal of it, which comes before the url is
\* cleared: neither a clean-up nor a commit of any other request does it.
OnlyDeleteFileDangles ==
  [][Served => \/ Served'
               \/ \E r \in Requests : /\ At(r, "erase") /\ At(r, "clear")'
                                      /\ req[r].old = url]_vars

\* A file nobody refers to, and nobody is going to remove.
Orphan(f) ==
  /\ f \in store /\ f # url
  /\ \A r \in Requests : /\ At(r, "commit") => req[r].new # f
                         /\ req[r].pc \in {"commit", "cleanup", "erase"} => req[r].old # f

\* The step of request r loses file f: it fails and forgets its own two files,
\* or it overwrites the url, which leads to f and is not the one it loaded.
Loses(r, f) ==
  /\ ~At(r, "idle") /\ req'[r] # req[r]
  /\ \/ SaveFails(r) /\ f = req[r].new
     \/ Abort(r) /\ f \in {req[r].old, req[r].new}
     \/ req[r].pc \in {"commit", "clear"} /\ url # req[r].old /\ f = url

\* A file becomes an orphan for three reasons only: its booking is deleted with
\* it, the very request that saves it or is to remove it fails, or a request
\* that loaded another url overwrites the one that leads to it.
OrphansHaveACause ==
  [][\A f \in Files : ~Orphan(f) /\ Orphan(f)' =>
       \/ DeleteBooking /\ f = url
       \/ \E r \in Requests : Loses(r, f)]_vars
=============================================================================
