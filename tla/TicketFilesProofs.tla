-------------------------- MODULE TicketFilesProofs --------------------------
(***************************************************************************)
(* Theorems about TicketFiles, for any requests, files and operations, and *)
(* about the event loop that its handlers run on.                          *)
(***************************************************************************)
EXTENDS TicketFiles, EventLoop, FiniteSetTheorems, TLAPS

USE TicketAssumption

Saving(r) == req[r].pc \in {"save", "commit"}

\* A path in use is not fresh.
UsedAreNotFresh ==
  /\ url # None => url \notin fresh
  /\ \A r \in Requests : /\ req[r].new # None => req[r].new \notin fresh
                         /\ req[r].old # None => req[r].old \notin fresh

\* The path of an unfinished save is known to its request alone.
NewIsPrivate ==
  \A r \in Requests :
    Saving(r) => /\ req[r].new # None /\ req[r].new # url
                 /\ \A q \in Requests : /\ req[q].old # req[r].new
                                        /\ q # r => req[q].new # req[r].new

\* Before the commit the new file is stored, after it the old one is unused.
FilesInPlace ==
  \A r \in Requests : /\ At(r, "commit") => req[r].new \in store
                      /\ At(r, "cleanup") => req[r].old # url /\ req[r].old # None
                      /\ req[r].op = "replace_file" => req[r].old # None

IInv == TypeOK /\ UsedAreNotFresh /\ NewIsPrivate /\ FilesInPlace

LEMMA IdleType == Idle \in Request
BY DEF Idle, Request

LEMMA InitIInv == Init => IInv
BY IdleType DEF Init, IInv, TypeOK, UsedAreNotFresh, NewIsPrivate, FilesInPlace,
                Saving, At, Idle

\* What the requests look like after a step of r.
LEMMA GotoEffect ==
  ASSUME TypeOK, NEW r \in Requests,
         NEW p \in {"idle", "save", "commit", "cleanup", "erase", "clear"}, Goto(r, p)
  PROVE  /\ req' \in [Requests -> Request]
         /\ req'[r].pc = p /\ req'[r].op = req[r].op
         /\ req'[r].old = req[r].old /\ req'[r].new = req[r].new
         /\ \A q \in Requests \ {r} : req'[q] = req[q]
<1>1. req[r] \in Request
  BY DEF TypeOK
<1>2. req'[r] = [req[r] EXCEPT !.pc = p] /\ \A q \in Requests \ {r} : req'[q] = req[q]
  BY DEF Goto, TypeOK
<1>3. [req[r] EXCEPT !.pc = p] \in Request
  BY <1>1 DEF Request
<1>4. req' \in [Requests -> Request]
  BY <1>1, <1>3 DEF Goto, TypeOK
<1> QED BY <1>1, <1>2, <1>4 DEF Request

LEMMA EndEffect ==
  ASSUME TypeOK, NEW r \in Requests, End(r)
  PROVE  /\ req' \in [Requests -> Request]
         /\ req'[r].pc = "idle" /\ req'[r].op = "none"
         /\ req'[r].old = None /\ req'[r].new = None
         /\ \A q \in Requests \ {r} : req'[q] = req[q]
BY IdleType DEF End, TypeOK, Idle

-----------------------------------------------------------------------------
(* One lemma for the steps that end a request without moving the url, one  *)
(* for each of the others.                                                 *)

LEMMA EndKeeps ==
  ASSUME IInv, NEW r \in Requests, End(r),
         url' = url, fresh' = fresh, booking' = booking,
         store' \subseteq Files,
         \A q \in Requests : q # r /\ At(q, "commit") /\ req[q].new \in store =>
                               req[q].new \in store'
  PROVE  IInv'
<1>1. TypeOK'
  BY EndEffect DEF IInv, TypeOK
<1>2. UsedAreNotFresh'
  BY EndEffect DEF IInv, UsedAreNotFresh
<1>3. NewIsPrivate'
  BY EndEffect DEF IInv, NewIsPrivate, Saving
<1>4. FilesInPlace'
  BY EndEffect DEF IInv, FilesInPlace, At
<1> QED BY <1>1, <1>2, <1>3, <1>4 DEF IInv

LEMMA StartKeeps ==
  ASSUME IInv, NEW r \in Requests,
         \/ \E f \in Files, o \in Ops : StartSave(r, f, o)
         \/ StartDelete(r)
  PROVE  IInv'
<1>1. CASE \E f \in Files, o \in Ops : StartSave(r, f, o)
  <2> PICK f \in Files, o \in Ops : StartSave(r, f, o)
    BY <1>1
  <2> DEFINE new == [op |-> o, pc |-> "save", old |-> url, new |-> f]
  <2>1. new \in Request
    BY DEF IInv, TypeOK, Request
  <2>2. /\ req'[r].pc = "save" /\ req'[r].old = url /\ req'[r].new = f
        /\ req'[r].op = "replace_file" => url # None
        /\ \A q \in Requests \ {r} : req'[q] = req[q]
        /\ req' \in [Requests -> Request]
    BY <2>1 DEF StartSave, IInv, TypeOK
  <2>3. f \in fresh /\ fresh' = fresh \ {f} /\ UNCHANGED <<booking, url, store>>
    BY DEF StartSave
  <2>4. TypeOK'
    BY <2>2, <2>3 DEF IInv, TypeOK
  <2>5. UsedAreNotFresh'
    BY <2>2, <2>3 DEF IInv, UsedAreNotFresh
  <2>6. NewIsPrivate'
    <3> SUFFICES ASSUME NEW s \in Requests, Saving(s)', NEW q \in Requests
                 PROVE  /\ req'[s].new # None /\ req'[s].new # url
                        /\ req'[q].old # req'[s].new
                        /\ q # s => req'[q].new # req'[s].new
      BY <2>3 DEF NewIsPrivate
    <3>1. CASE s = r
      BY <2>2, <2>3, <3>1 DEF IInv, UsedAreNotFresh, TypeOK
    <3>2. CASE s # r
      <4>1. Saving(s) /\ req'[s] = req[s] /\ req[s].new \notin fresh
            /\ req[s].new # None /\ req[s].new # url
        BY <2>2, <3>2 DEF Saving, IInv, NewIsPrivate, UsedAreNotFresh
      <4> QED BY <2>2, <2>3, <3>2, <4>1 DEF IInv, NewIsPrivate
    <3> QED BY <3>1, <3>2
  <2>7. FilesInPlace'
    BY <2>2, <2>3 DEF IInv, FilesInPlace, At
  <2> QED BY <2>4, <2>5, <2>6, <2>7 DEF IInv
<1>2. CASE StartDelete(r)
  <2> DEFINE new == [op |-> "delete_file", pc |-> "erase", old |-> url, new |-> None]
  <2>1. new \in Request
    BY DEF IInv, TypeOK, Request
  <2>2. /\ req'[r].op = "delete_file"
        /\ req'[r].pc = "erase" /\ req'[r].old = url /\ req'[r].new = None
        /\ \A q \in Requests \ {r} : req'[q] = req[q]
        /\ req' \in [Requests -> Request]
    BY <1>2, <2>1 DEF StartDelete, IInv, TypeOK
  <2>3. UNCHANGED <<booking, url, store, fresh>>
    BY <1>2 DEF StartDelete
  <2>4. TypeOK' /\ UsedAreNotFresh' /\ FilesInPlace'
    BY <2>2, <2>3 DEF IInv, TypeOK, UsedAreNotFresh, FilesInPlace, At
  <2>5. NewIsPrivate'
    BY <2>2, <2>3 DEF IInv, NewIsPrivate, Saving
  <2> QED BY <2>4, <2>5 DEF IInv
<1> QED BY <1>1, <1>2

LEMMA SaveKeeps ==
  ASSUME IInv, NEW r \in Requests, Save(r)
  PROVE  IInv'
<1>1. /\ req' \in [Requests -> Request]
      /\ req'[r].pc = "commit" /\ req'[r].op = req[r].op
      /\ req'[r].old = req[r].old /\ req'[r].new = req[r].new
      /\ \A q \in Requests \ {r} : req'[q] = req[q]
  BY GotoEffect DEF Save, IInv
<1>2. /\ req[r].pc = "save" /\ req[r].new # None /\ req[r].new \in Files
      /\ store' = store \cup {req[r].new}
      /\ UNCHANGED <<booking, url, fresh>>
  BY DEF Save, At, IInv, NewIsPrivate, Saving, TypeOK, Request
<1>3. TypeOK' /\ UsedAreNotFresh'
  BY <1>1, <1>2 DEF IInv, TypeOK, UsedAreNotFresh
<1>4. NewIsPrivate'
  BY <1>1, <1>2 DEF IInv, NewIsPrivate, Saving
<1>5. FilesInPlace'
  BY <1>1, <1>2 DEF IInv, FilesInPlace, At
<1> QED BY <1>3, <1>4, <1>5 DEF IInv

LEMMA EraseKeeps ==
  ASSUME IInv, NEW r \in Requests, Erase(r)
  PROVE  IInv'
<1>1. /\ req' \in [Requests -> Request]
      /\ req'[r].pc = "clear" /\ req'[r].op = req[r].op
      /\ req'[r].old = req[r].old /\ req'[r].new = req[r].new
      /\ \A q \in Requests \ {r} : req'[q] = req[q]
  BY GotoEffect DEF Erase, IInv
<1>2. /\ req[r].pc = "erase"
      /\ store' = store \ {req[r].old}
      /\ UNCHANGED <<booking, url, fresh>>
  BY DEF Erase, At
<1>3. TypeOK' /\ UsedAreNotFresh'
  BY <1>1, <1>2 DEF IInv, TypeOK, UsedAreNotFresh
<1>4. NewIsPrivate'
  BY <1>1, <1>2 DEF IInv, NewIsPrivate, Saving
<1>5. FilesInPlace'
  BY <1>1, <1>2 DEF IInv, FilesInPlace, NewIsPrivate, Saving, At
<1> QED BY <1>3, <1>4, <1>5 DEF IInv

LEMMA CommitKeeps ==
  ASSUME IInv, NEW r \in Requests, CommitNew(r)
  PROVE  IInv' /\ Served'
<1>1. /\ req' \in [Requests -> Request]
      /\ \/ /\ req'[r].pc = "cleanup" /\ req'[r].op = "replace_file"
            /\ req[r].op = "replace_file"
            /\ req'[r].old = req[r].old /\ req'[r].new = req[r].new
         \/ /\ req'[r].pc = "idle" /\ req'[r].op = "none"
            /\ req'[r].old = None /\ req'[r].new = None
      /\ \A q \in Requests \ {r} : req'[q] = req[q]
  BY GotoEffect, EndEffect DEF CommitNew, IInv
<1>2. /\ Saving(r) /\ req[r].new \in store /\ req[r].new # None
      /\ url' = req[r].new
      /\ UNCHANGED <<store, fresh>>
  BY DEF CommitNew, At, Saving, IInv, NewIsPrivate, FilesInPlace
<1>3. TypeOK'
  BY <1>1, <1>2 DEF CommitNew, IInv, TypeOK
<1>4. UsedAreNotFresh'
  BY <1>1, <1>2 DEF IInv, UsedAreNotFresh
<1>5. NewIsPrivate'
  BY <1>1, <1>2 DEF IInv, NewIsPrivate, Saving
<1>6. FilesInPlace'
  BY <1>1, <1>2 DEF IInv, FilesInPlace, NewIsPrivate, At
<1>7. Served'
  BY <1>2 DEF Served
<1> QED BY <1>3, <1>4, <1>5, <1>6, <1>7 DEF IInv

\* Clear and DeleteBooking.
LEMMA NoUrlKeeps ==
  ASSUME IInv, url' = None, UNCHANGED <<store, fresh>>,
         booking' \in {"open", "closed", "deleted"},
         \/ \E r \in Requests : Clear(r)
         \/ UNCHANGED req
  PROVE  IInv'
<1>1. /\ req' \in [Requests -> Request]
      /\ \A q \in Requests : \/ req'[q] = req[q]
                             \/ /\ req'[q].pc = "idle" /\ req'[q].op = "none"
                                /\ req'[q].old = None /\ req'[q].new = None
  BY EndEffect DEF Clear, IInv, TypeOK
<1>2. TypeOK' /\ UsedAreNotFresh'
  BY <1>1 DEF IInv, TypeOK, UsedAreNotFresh
<1>3. NewIsPrivate'
  BY <1>1 DEF IInv, NewIsPrivate, Saving
<1>4. FilesInPlace'
  BY <1>1 DEF IInv, FilesInPlace, At
<1> QED BY <1>2, <1>3, <1>4 DEF IInv

-----------------------------------------------------------------------------
(* The steps, by what they do to the url.                                  *)

\* The steps after which the url is where it was, and its file as well.
LEMMA QuietKeeps ==
  ASSUME IInv, NEW r \in Requests,
         SaveFails(r) \/ Cleanup(r) \/ Abort(r)
  PROVE  IInv' /\ url' = url /\ (Served => Served')
<1>1. SUFFICES ASSUME End(r), UNCHANGED <<booking, url, fresh>>,
                      store' \subseteq Files,
                      store \subseteq store'
                        \/ (At(r, "cleanup") /\ store' = store \ {req[r].old})
               PROVE  IInv' /\ url' = url /\ (Served => Served')
  <2>1. req[r].new \in Files \cup {None}
    BY DEF IInv, TypeOK, Request
  <2>2. At(r, "save") => req[r].new # None
    BY DEF IInv, NewIsPrivate, Saving, At
  <2> QED BY <2>1, <2>2 DEF SaveFails, Cleanup, Abort, IInv, TypeOK
<1>2. ASSUME NEW q \in Requests, q # r, At(q, "commit"), req[q].new \in store
      PROVE  req[q].new \in store'
  BY <1>1, <1>2 DEF IInv, NewIsPrivate, Saving, At
<1>3. IInv'
  BY <1>1, <1>2, EndKeeps
<1>4. Served => Served'
  BY <1>1 DEF Served, IInv, FilesInPlace
<1> QED BY <1>1, <1>3, <1>4

\* A step moves the url to a stored file, drops it, lets delete_file erase its
\* file, or leaves both alone.
LEMMA StepEffect ==
  ASSUME IInv, [Next]_vars
  PROVE  /\ IInv'
         /\ \/ url' = url /\ (Served => Served')
            \/ url' # None /\ Served'
            \/ url' = None /\ booking' = "deleted"
            \/ \E r \in Requests : url' = None /\ Clear(r)
            \/ \E r \in Requests : url' = url /\ Erase(r)
<1>1. ASSUME NEW r \in Requests,
             \/ \E f \in Files, o \in Ops : StartSave(r, f, o)
             \/ StartDelete(r)
      PROVE  IInv' /\ url' = url /\ (Served => Served')
  <2>1. UNCHANGED <<url, store>>
    BY <1>1 DEF StartSave, StartDelete
  <2> QED BY <1>1, <2>1, StartKeeps DEF Served
<1>2. ASSUME NEW r \in Requests, Save(r)
      PROVE  IInv' /\ url' = url /\ (Served => Served')
  BY <1>2, SaveKeeps DEF Save, Served
<1>3. ASSUME NEW r \in Requests, CommitNew(r)
      PROVE  IInv' /\ url' # None /\ Served'
  <2>1. url' # None
    BY <1>3 DEF CommitNew, At, IInv, NewIsPrivate, Saving
  <2> QED BY <1>3, <2>1, CommitKeeps
<1>4. ASSUME NEW r \in Requests, Erase(r)
      PROVE  IInv' /\ url' = url
  BY <1>4, EraseKeeps DEF Erase
<1>5. ASSUME NEW r \in Requests, Clear(r)
      PROVE  IInv' /\ url' = None
  BY <1>5, NoUrlKeeps DEF Clear, IInv, TypeOK
<1>6. ASSUME NEW r \in Requests, SaveFails(r) \/ Cleanup(r) \/ Abort(r)
      PROVE  IInv' /\ url' = url /\ (Served => Served')
  BY <1>6, QuietKeeps
<1>7. ASSUME CloseBooking \/ UNCHANGED vars
      PROVE  IInv' /\ url' = url /\ (Served => Served')
  BY <1>7 DEF CloseBooking, vars, Served, IInv, TypeOK, UsedAreNotFresh,
              NewIsPrivate, FilesInPlace, Saving, At
<1>8. ASSUME DeleteBooking
      PROVE  IInv' /\ url' = None /\ booking' = "deleted"
  BY <1>8, NoUrlKeeps DEF DeleteBooking
<1> QED BY <1>1, <1>2, <1>3, <1>4, <1>5, <1>6, <1>7, <1>8 DEF Next

THEOREM Inductive == Spec => []IInv
<1>1. IInv /\ [Next]_vars => IInv'
  BY StepEffect
<1> QED BY <1>1, InitIInv, PTL DEF Spec

\* Every reachable state of the ticket handlers is well typed.
THEOREM TypeCorrect == Spec => []TypeOK
BY Inductive, PTL DEF IInv

\* No clean-up and no commit takes the file away from a url that has it.
THEOREM OnlyDeletionDangles == Spec => OnlyDeleteFileDangles
<1>1. ASSUME IInv, [Next]_vars, Served
      PROVE  \/ Served'
             \/ \E r \in Requests : /\ At(r, "erase") /\ At(r, "clear")'
                                    /\ req[r].old = url
  <2>1. ASSUME NEW r \in Requests, Erase(r), ~Served'
        PROVE  At(r, "erase") /\ At(r, "clear")' /\ req[r].old = url
    BY <1>1, <2>1, GotoEffect DEF Erase, Served, At, IInv
  <2>2. url' = None => Served'
    BY DEF Served
  <2> QED BY <1>1, <2>1, <2>2, StepEffect
<1>2. IInv /\ [Next]_vars =>
        [Served => \/ Served'
                   \/ \E r \in Requests : /\ At(r, "erase") /\ At(r, "clear")'
                                          /\ req[r].old = url]_vars
  BY <1>1
<1> QED BY <1>2, Inductive, PTL DEF Spec, OnlyDeleteFileDangles

-----------------------------------------------------------------------------
(* Without delete_file a ticket stays, whatever fails.                     *)

NoDeletion ==
  /\ \A r \in Requests : req[r].pc \notin {"erase", "clear"}
  /\ Served

LEMMA NoDeletionStep ==
  ASSUME "delete_file" \notin Ops, IInv, NoDeletion, [Next]_vars
  PROVE  /\ NoDeletion'
         /\ url # None /\ booking' # "deleted" => url' # None
<1>1. \A r \in Requests : ~Clear(r) /\ ~Erase(r) /\ ~StartDelete(r)
  BY DEF NoDeletion, Clear, Erase, StartDelete, At
<1>2. Served' /\ (url # None /\ booking' # "deleted" => url' # None)
  BY <1>1, StepEffect DEF NoDeletion, Served
<1>3. ASSUME NEW q \in Requests
      PROVE  req'[q].pc \notin {"erase", "clear"}
  <2>0. req[q].pc \notin {"erase", "clear"}
    BY DEF NoDeletion
  <2>1. ASSUME NEW r \in Requests,
               Save(r) \/ SaveFails(r) \/ CommitNew(r) \/ Cleanup(r) \/ Abort(r)
        PROVE  req'[q].pc \notin {"erase", "clear"}
    <3>1. Goto(r, "commit") \/ Goto(r, "cleanup") \/ End(r)
      BY <2>1 DEF Save, SaveFails, CommitNew, Cleanup, Abort
    <3> QED BY <2>0, <3>1, GotoEffect, EndEffect DEF IInv
  <2>2. ASSUME NEW r \in Requests, NEW f \in Files, NEW o \in Ops, StartSave(r, f, o)
        PROVE  req'[q].pc \notin {"erase", "clear"}
    BY <2>0, <2>2 DEF StartSave, IInv, TypeOK
  <2>3. CASE CloseBooking \/ DeleteBooking \/ UNCHANGED vars
    BY <2>0, <2>3 DEF CloseBooking, DeleteBooking, vars
  <2> QED BY <1>1, <2>1, <2>2, <2>3 DEF Next
<1> QED BY <1>2, <1>3 DEF NoDeletion

\* Uploads and replacements, failing anywhere, never lose a ticket.
THEOREM ReplacementKeepsTicket ==
  ASSUME "delete_file" \notin Ops
  PROVE  Spec => TicketStays
<1>1. Init => NoDeletion
  BY DEF Init, NoDeletion, Served, Idle
<1>2. IInv /\ NoDeletion /\ [Next]_vars => NoDeletion'
  BY NoDeletionStep
<1>3. IInv /\ NoDeletion /\ [Next]_vars =>
        [url # None /\ booking' # "deleted" => url' # None /\ Served']_vars
  BY NoDeletionStep DEF NoDeletion
<1> QED BY <1>1, <1>2, <1>3, Inductive, PTL DEF Spec, TicketStays

-----------------------------------------------------------------------------
(* Files leak for known reasons only.                                      *)

\* delete_file erases a path for good, and an upload replaces no file.
ErasedIsGone == \A r \in Requests : At(r, "clear") => req[r].old \notin store
UploadReplacesNothing ==
  \A r \in Requests : Saving(r) /\ req[r].op # "replace_file" => req[r].old = None

\* The step of the request that takes it.
Act(r) ==
  \/ \E f \in Files, o \in Ops : StartSave(r, f, o)
  \/ StartDelete(r)
  \/ Save(r) \/ SaveFails(r) \/ CommitNew(r) \/ Cleanup(r)
  \/ Erase(r) \/ Clear(r)
  \/ Abort(r)

LEMMA OthersWait ==
  ASSUME IInv, NEW r \in Requests, Act(r)
  PROVE  \A q \in Requests \ {r} : req'[q] = req[q]
<1>1. ASSUME NEW p, Goto(r, p) PROVE \A q \in Requests \ {r} : req'[q] = req[q]
  BY <1>1 DEF Goto, IInv, TypeOK
<1>2. ASSUME End(r) PROVE \A q \in Requests \ {r} : req'[q] = req[q]
  BY <1>2 DEF End, IInv, TypeOK
<1> QED BY <1>1, <1>2 DEF Act, StartSave, StartDelete, Save, SaveFails, CommitNew,
                          Cleanup, Erase, Clear, Abort, IInv, TypeOK

\* A path enters the store only by the save of the request it belongs to.
LEMMA StoreGrows ==
  ASSUME IInv, NEW r \in Requests, Act(r), NEW f \in store', f \notin store
  PROVE  Saving(r) /\ f = req[r].new
BY DEF Act, StartSave, StartDelete, Save, SaveFails, CommitNew, Cleanup, Erase, Clear,
       Abort, At, Saving

LEMMA LeakInvariant ==
  ASSUME IInv, ErasedIsGone, UploadReplacesNothing, [Next]_vars
  PROVE  ErasedIsGone' /\ UploadReplacesNothing'
<1>1. ASSUME NEW r \in Requests, Act(r)
      PROVE  ErasedIsGone' /\ UploadReplacesNothing'
  <2>1. ASSUME NEW q \in Requests \ {r}
        PROVE  /\ At(q, "clear")' => req'[q].old \notin store'
               /\ Saving(q)' /\ req'[q].op # "replace_file" => req'[q].old = None
    <3>1. req'[q] = req[q]
      BY <1>1, OthersWait
    <3>2. At(q, "clear") => req[q].old \notin store'
      BY <1>1, StoreGrows DEF ErasedIsGone, IInv, NewIsPrivate
    <3> QED BY <3>1, <3>2 DEF UploadReplacesNothing, Saving, At
  <2>2. /\ At(r, "clear")' => req'[r].old \notin store'
        /\ Saving(r)' /\ req'[r].op # "replace_file" => req'[r].old = None
    <3>1. CASE \E f \in Files, o \in Ops : StartSave(r, f, o)
      BY <3>1 DEF StartSave, IInv, TypeOK, At, Saving
    <3>2. CASE StartDelete(r)
      BY <3>2 DEF StartDelete, IInv, TypeOK, At, Saving
    <3>3. CASE Save(r)
      BY <3>3, GotoEffect DEF Save, IInv, At, Saving, UploadReplacesNothing
    <3>4. CASE Erase(r)
      BY <3>4, GotoEffect DEF Erase, IInv, At, Saving
    <3>5. CASE CommitNew(r) /\ Goto(r, "cleanup")
      BY <3>5, GotoEffect DEF IInv, At, Saving
    <3>6. CASE End(r)
      BY <3>6, EndEffect DEF IInv, At, Saving
    <3> QED BY <1>1, <3>1, <3>2, <3>3, <3>4, <3>5, <3>6
            DEF Act, SaveFails, CommitNew, Cleanup, Clear, Abort
  <2> QED BY <2>1, <2>2 DEF ErasedIsGone, UploadReplacesNothing
<1>2. CASE CloseBooking \/ DeleteBooking \/ UNCHANGED vars
  BY <1>2 DEF CloseBooking, DeleteBooking, vars, ErasedIsGone, UploadReplacesNothing,
              Saving, At
<1> QED BY <1>1, <1>2 DEF Next, Act

\* What request r keeps from being an orphan.
Covers(r, f) ==
  \/ At(r, "commit") /\ req[r].new = f
  \/ req[r].pc \in {"commit", "cleanup", "erase"} /\ req[r].old = f

LEMMA OrphanCovers ==
  ASSUME NEW f \in Files
  PROVE  Orphan(f) <=> f \in store /\ f # url /\ \A r \in Requests : ~Covers(r, f)
BY DEF Orphan, Covers

\* A file that a step orphans was in the store, and either the url or the
\* request that took the step kept it from being an orphan.
LEMMA NoOtherLeak ==
  ASSUME IInv, ErasedIsGone, UploadReplacesNothing, NEW r \in Requests, Act(r),
         NEW f \in Files, ~Loses(r, f), Orphan(f)'
  PROVE  Orphan(f)
<1>1. f \in store' /\ f # url' /\ \A q \in Requests : ~Covers(q, f)'
  BY OrphanCovers DEF Orphan, Covers
<1>2. \A q \in Requests \ {r} : ~Covers(q, f)
  BY <1>1, OthersWait DEF Covers, At
<1>3. SUFFICES f \in store /\ f # url /\ ~Covers(r, f)
  BY <1>2, OrphanCovers
<1>4. f # None
  OBVIOUS
<1>5. CASE (\E g \in Files, o \in Ops : StartSave(r, g, o)) \/ StartDelete(r)
  BY <1>1, <1>5 DEF StartSave, StartDelete, Covers, At
<1>6. CASE Save(r)
  <2>1. req'[r].pc = "commit" /\ req'[r].new = req[r].new
    BY <1>6, GotoEffect DEF Save, IInv
  <2> QED BY <1>1, <1>6, <2>1 DEF Save, Covers, At
<1>7. CASE SaveFails(r) \/ Abort(r)
  <2>1. /\ ~At(r, "idle") /\ req'[r] # req[r]
        /\ req'[r].pc = "idle"
    <3>1. ~At(r, "idle") /\ End(r)
      BY <1>7 DEF SaveFails, Abort, At
    <3>2. req'[r].pc = "idle"
      BY <3>1, EndEffect DEF IInv
    <3> QED BY <3>1, <3>2 DEF At
  <2>2. CASE SaveFails(r)
    BY <1>1, <2>1, <2>2 DEF Loses, SaveFails, Covers, At
  <2>3. CASE Abort(r)
    BY <1>1, <2>1, <2>3 DEF Loses, Abort, Covers
  <2> QED BY <1>7, <2>2, <2>3
<1>8. CASE CommitNew(r)
  <2>1. At(r, "commit") /\ url' = req[r].new /\ store' = store
    BY <1>8 DEF CommitNew
  <2>2. req'[r] # req[r]
    BY <1>8, GotoEffect, EndEffect DEF CommitNew, IInv, At
  <2>3. f = url => url = req[r].old
    BY <2>1, <2>2 DEF Loses, At
  <2>4. f # req[r].old
    <3>1. CASE req[r].op = "replace_file"
      <4>1. req'[r].pc = "cleanup" /\ req'[r].old = req[r].old
        BY <1>8, <3>1, GotoEffect DEF CommitNew, IInv
      <4> QED BY <1>1, <4>1 DEF Covers
    <3>2. CASE req[r].op # "replace_file"
      BY <1>4, <2>1, <3>2 DEF UploadReplacesNothing, Saving, At
    <3> QED BY <3>1, <3>2
  <2> QED BY <1>1, <2>1, <2>3, <2>4 DEF Covers, At
<1>9. CASE Cleanup(r)
  BY <1>1, <1>9 DEF Cleanup, Covers, At
<1>10. CASE Erase(r)
  BY <1>1, <1>10 DEF Erase, Covers, At
<1>11. CASE Clear(r)
  <2>1. At(r, "clear") /\ store' = store
    BY <1>11 DEF Clear
  <2>2. req'[r] # req[r]
    BY <1>11, EndEffect DEF Clear, IInv, At
  <2>3. f = url => url = req[r].old
    BY <2>1, <2>2 DEF Loses, At
  <2> QED BY <1>1, <2>1, <2>3 DEF ErasedIsGone, Covers, At
<1> QED BY <1>5, <1>6, <1>7, <1>8, <1>9, <1>10, <1>11 DEF Act

\* Every file that leaks does so with the deletion of its booking, by a failure
\* of the request that has it, or by a request that overwrites the url that leads
\* to it without having loaded it.
THEOREM LeaksHaveACause == Spec => OrphansHaveACause
<1> DEFINE Body ==
      \A f \in Files : ~Orphan(f) /\ Orphan(f)' =>
        \/ DeleteBooking /\ f = url
        \/ \E r \in Requests : Loses(r, f)
<1>1. Init => ErasedIsGone /\ UploadReplacesNothing
  BY DEF Init, ErasedIsGone, UploadReplacesNothing, Saving, At, Idle
<1>2. IInv /\ ErasedIsGone /\ UploadReplacesNothing /\ [Next]_vars =>
        (ErasedIsGone /\ UploadReplacesNothing)'
  BY LeakInvariant
<1>3. ASSUME IInv, ErasedIsGone, UploadReplacesNothing, [Next]_vars
      PROVE  Body
  <2>1. ASSUME NEW r \in Requests, Act(r) PROVE Body
    BY <1>3, <2>1, NoOtherLeak
  <2>2. CASE DeleteBooking
    BY <2>2 DEF DeleteBooking, Orphan, At
  <2>3. CASE CloseBooking \/ UNCHANGED vars
    BY <2>3 DEF CloseBooking, vars, Orphan, At
  <2> QED BY <1>3, <2>1, <2>2, <2>3 DEF Next, Act
<1>4. IInv /\ ErasedIsGone /\ UploadReplacesNothing /\ [Next]_vars => [Body]_vars
  BY <1>3
<1> QED BY <1>1, <1>2, <1>4, Inductive, PTL DEF Spec, OrphansHaveACause

-----------------------------------------------------------------------------
(* The handlers above run on the event loop: module EventLoop, for any     *)
(* requests and any size of the pool of connections.                       *)

USE LoopAssumption

\* Only uploads are at the points of an upload.
UploadPoints ==
  \A r \in WebRequests : pc[r] \in {"storing", "stored", "update", "cleaning"} =>
                             r \in Uploads

\* Who is past the lock holds it, and who holds it is at work or has ended.
LockIsHeld ==
  /\ \A r \in WebRequests : pc[r] = "locked" => holder = r
  /\ holder # Nobody => pc[holder] \in {"locked", "ended"}

LoopIsBusy == loop # Nobody => pc[loop] \in {"handler", "update", "refresh"}

LoopInv ==
  /\ LoopTypeOK /\ IsFiniteSet(conns)
  /\ UploadPoints /\ LockIsHeld /\ LoopIsBusy

LEMMA LoopInitKeeps ==
  ASSUME LoopInit
  PROVE  LoopInv
<1>1. Cardinality({}) = 0 /\ IsFiniteSet({})
  BY FS_EmptySet
<1>2. conns = {} /\ loop = Nobody /\ holder = Nobody
  BY DEF LoopInit
<1>3. pc \in [WebRequests -> {"idle", "depends", "ready", "handler", "locked", "refresh",
                         "storing", "stored", "update", "cleaning", "ended"}]
  BY DEF LoopInit
<1>4. Cardinality(conns) <= PoolSize
  BY <1>1, <1>2
<1>5. LoopTypeOK /\ IsFiniteSet(conns)
  BY <1>1, <1>2, <1>3, <1>4 DEF LoopTypeOK
<1> QED BY <1>5 DEF LoopInv, LoopInit, UploadPoints, LockIsHeld, LoopIsBusy

\* A checkout needs room in the pool, everything else gives connections back.
LEMMA ConnsKeep ==
  ASSUME LoopInv, NEW r \in WebRequests,
         \/ conns' = conns \cup {r} /\ ~PoolIsFull
         \/ conns' = conns \ {r}
         \/ UNCHANGED conns
  PROVE  /\ conns' \in SUBSET WebRequests /\ IsFiniteSet(conns')
         /\ Cardinality(conns') <= PoolSize
<1>0. IsFiniteSet(conns) /\ LoopTypeOK /\ PoolSize \in Nat
  BY DEF LoopInv
<1>1. /\ conns \subseteq WebRequests /\ IsFiniteSet(conns)
      /\ Cardinality(conns) \in Nat /\ Cardinality(conns) <= PoolSize /\ PoolSize \in Nat
  <2>1. conns \subseteq WebRequests /\ Cardinality(conns) <= PoolSize
    BY <1>0 DEF LoopTypeOK
  <2> QED BY <1>0, <2>1, FS_CardinalityType
<1>2. CASE conns' = conns \cup {r} /\ ~PoolIsFull
  <2>1. IsFiniteSet(conns') /\ Cardinality(conns') <= Cardinality(conns) + 1
    <3>1. /\ IsFiniteSet(conns \cup {r})
          /\ Cardinality(conns \cup {r}) =
               IF r \in conns THEN Cardinality(conns) ELSE Cardinality(conns) + 1
      BY <1>1, FS_AddElement
    <3> QED BY <1>1, <1>2, <3>1
  <2>2. Cardinality(conns) < PoolSize
    BY <1>1, <1>2 DEF PoolIsFull
  <2>3. Cardinality(conns') \in Nat
    BY <2>1, FS_CardinalityType
  <2> QED BY <1>1, <1>2, <2>1, <2>2, <2>3
<1>3. CASE conns' = conns \ {r}
  <2>1. IsFiniteSet(conns') /\ Cardinality(conns') <= Cardinality(conns)
    BY <1>1, <1>3, FS_Subset
  <2>2. Cardinality(conns') \in Nat
    BY <2>1, FS_CardinalityType
  <2> QED BY <1>1, <1>3, <2>1, <2>2
<1> QED BY <1>1, <1>2, <1>3

\* A step of r leaves the others where they are.
LoopAct(r) == Accept(r) \/ OwnStep(r) \/ LoopStep(r) \/ RowStep(r)

\* What a step of r can do, by the point r is at.
LEMMA LoopEffect ==
  ASSUME LoopInv, NEW r \in WebRequests, LoopAct(r)
  PROVE  /\ pc' = [pc EXCEPT ![r] = pc'[r]]
         /\ \/ conns' = conns \cup {r} /\ ~PoolIsFull
            \/ conns' = conns \ {r}
            \/ UNCHANGED conns
         /\ \/ /\ pc[r] = "idle" /\ pc'[r] = "depends"
               /\ loop = Nobody /\ UNCHANGED <<loop, holder>>
            \/ /\ pc[r] = "depends" /\ pc'[r] \in {"ready", "ended"}
               /\ UNCHANGED holder /\ loop' \in {loop, Nobody} /\ (loop # r => loop' = loop)
            \/ /\ pc[r] = "ready" /\ pc'[r] = "handler"
               /\ loop = Nobody /\ loop' = (IF r \in Uploads THEN r ELSE Nobody)
               /\ UNCHANGED holder
            \/ /\ pc[r] = "ended" /\ pc'[r] = "idle" /\ loop = Nobody /\ UNCHANGED loop
               /\ holder' = (IF holder = r THEN Nobody ELSE holder)
            \/ /\ pc[r] = "refresh" /\ UNCHANGED holder
               /\ pc'[r] = "ended" \/ (pc'[r] = "cleaning" /\ r \in Uploads)
               /\ loop' = (IF loop = r THEN Nobody ELSE loop)
            \/ /\ r \in Threaded /\ pc[r] = "handler" /\ pc'[r] = "locked"
               /\ holder = Nobody /\ holder' = r /\ UNCHANGED loop
            \/ /\ r \in Threaded /\ pc[r] \in {"handler", "locked"} /\ pc'[r] = "ended"
               /\ UNCHANGED <<loop, holder>>
            \/ /\ r \in Threaded /\ pc[r] = "locked" /\ pc'[r] \in {"refresh", "ended"}
               /\ holder' = Nobody /\ UNCHANGED loop
            \/ /\ loop = r /\ pc[r] = "handler" /\ pc'[r] \in {"storing", "ended"}
               /\ loop' = Nobody /\ UNCHANGED holder
            \/ /\ pc[r] = "storing" /\ pc'[r] = "stored" /\ UNCHANGED <<loop, holder>>
            \/ /\ pc[r] = "cleaning" /\ pc'[r] = "ended" /\ UNCHANGED <<loop, holder>>
            \/ /\ loop = Nobody /\ pc[r] = "stored" /\ UNCHANGED holder
               /\ \/ pc'[r] = "update" /\ loop' = r
                  \/ pc'[r] = "ended" /\ loop' = loop
            \/ /\ loop = r /\ pc[r] = "update" /\ holder = Nobody /\ UNCHANGED holder
               /\ \/ pc'[r] = "refresh" /\ loop' = loop
                  \/ pc'[r] = "ended" /\ loop' = Nobody
<1>1. \A p : GoesTo(r, p) => pc' = [pc EXCEPT ![r] = p] /\ pc'[r] = p
  BY DEF GoesTo, LoopInv, LoopTypeOK
<1>2. CASE Accept(r)
  BY <1>1, <1>2 DEF Accept, IsAt, LoopIsFree
<1>3. CASE LoadCaller(r)
  BY <1>1, <1>3 DEF LoadCaller, IsAt
<1>4. CASE CheckoutTimesOut(r)
  BY <1>1, <1>4 DEF CheckoutTimesOut
<1>5. CASE Refresh(r)
  BY <1>1, <1>5 DEF Refresh, IsAt
<1>6. CASE EndEarly(r)
  BY <1>1, <1>6 DEF EndEarly
<1>7. CASE Commit(r)
  BY <1>1, <1>7 DEF Commit, IsAt
<1>8. CASE Await(r)
  BY <1>1, <1>8 DEF Await, IsAt
<1>9. CASE Stored(r)
  BY <1>1, <1>9 DEF Stored, IsAt
<1>10. CASE Dispatch(r)
  BY <1>1, <1>10 DEF Dispatch, IsAt, LoopIsFree
<1>11. CASE Resume(r)
  BY <1>1, <1>11 DEF Resume, IsAt, LoopIsFree
<1>12. CASE Close(r)
  BY <1>1, <1>12 DEF Close, IsAt, LoopIsFree
<1>13. CASE Lock(r)
  BY <1>1, <1>13 DEF Lock, IsAt
<1>14. CASE CommitOnLoop(r)
  BY <1>1, <1>14 DEF CommitOnLoop, IsAt
<1> QED BY <1>2, <1>3, <1>4, <1>5, <1>6, <1>7, <1>8, <1>9, <1>10, <1>11, <1>12, <1>13,
           <1>14 DEF LoopAct, OwnStep, LoopStep, RowStep

LEMMA LoopActKeeps ==
  ASSUME LoopInv, NEW r \in WebRequests, LoopAct(r)
  PROVE  LoopInv' /\ (Hung => Hung')
<1> USE DEF LoopInv
<1>1. \A q \in WebRequests \ {r} : pc'[q] = pc[q]
  BY LoopEffect DEF LoopTypeOK
<1>2. /\ Threaded \cap Uploads = {} /\ Nobody \notin WebRequests
      /\ WebRequests = Threaded \cup Uploads
      /\ loop \in Uploads \cup {Nobody} /\ holder \in Threaded \cup {Nobody}
  BY DEF WebRequests, LoopTypeOK
<1>3. LoopTypeOK'
  <2>1. pc' \in [WebRequests -> {"idle", "depends", "ready", "handler", "locked", "refresh",
                            "storing", "stored", "update", "cleaning", "ended"}]
    BY LoopEffect DEF LoopTypeOK
  <2>2. loop' \in Uploads \cup {Nobody}
    BY <1>2, LoopEffect DEF UploadPoints
  <2>3. holder' \in Threaded \cup {Nobody}
    BY <1>2, LoopEffect
  <2>4. conns' \in SUBSET WebRequests /\ Cardinality(conns') <= PoolSize
    BY LoopEffect, ConnsKeep
  <2> QED BY <2>1, <2>2, <2>3, <2>4 DEF LoopTypeOK
<1>4. IsFiniteSet(conns')
  BY LoopEffect, ConnsKeep
<1>5. UploadPoints'
  BY <1>1, <1>2, LoopEffect DEF UploadPoints
<1>6. LockIsHeld'
  BY <1>1, <1>2, LoopEffect DEF LockIsHeld
<1>7. LoopIsBusy'
  BY <1>1, <1>2, LoopEffect DEF LoopIsBusy
<1>8. Hung => Hung'
  BY <1>1, <1>2, LoopEffect DEF Hung, IsAt, LockIsHeld
<1> QED BY <1>3, <1>4, <1>5, <1>6, <1>7, <1>8

LEMMA LoopNextKeeps ==
  ASSUME LoopInv, [LoopNext]_loopVars
  PROVE  LoopInv' /\ (Hung => Hung')
<1>1. CASE UNCHANGED loopVars
  BY <1>1 DEF loopVars, LoopInv, LoopTypeOK, UploadPoints, LockIsHeld, LoopIsBusy,
              Hung, IsAt
<1>2. CASE \E r \in WebRequests : LoopAct(r)
  BY <1>2, LoopActKeeps
<1> QED BY <1>1, <1>2 DEF LoopNext, LoopAct

LEMMA LoopInductive == LoopSpec => []LoopInv
<1>1. LoopInit => LoopInv
  BY LoopInitKeeps
<1>2. LoopInv /\ [LoopNext]_loopVars => LoopInv'
  BY LoopNextKeeps
<1> QED BY <1>1, <1>2, PTL DEF LoopSpec

\* The loop, the lock and the pool keep their types, and no more connections are
\* out than the pool has.
THEOREM LoopTypeCorrect == LoopSpec => []LoopTypeOK
<1>1. LoopInv => LoopTypeOK
  BY DEF LoopInv
<1> QED BY <1>1, LoopInductive, PTL

\* What occupies the loop is about to await, or asks the pool for a connection,
\* which ends by a timeout, or waits for a row lock: of a thread that is at work,
\* or the process hangs.  There is no other way for the loop to wait.
LoopWaitsForOpenWork ==
  loop # Nobody => \/ pc[loop] \in {"handler", "refresh"}
                   \/ /\ pc[loop] = "update"
                      /\ holder = Nobody \/ pc[holder] = "locked" \/ Hung

\* The event loop waits for nothing but open work, or hangs.
THEOREM LoopWaitsForItsTurn == LoopSpec => []LoopWaitsForOpenWork
<1>1. LoopInv => LoopWaitsForOpenWork
  BY DEF LoopInv, LoopWaitsForOpenWork, LoopIsBusy, LockIsHeld, Hung, IsAt
<1> QED BY <1>1, LoopInductive, PTL

\* Nothing that any request can still do ends a hang.
THEOREM HangIsForGood == LoopSpec => HangLasts
<1>1. LoopInv /\ [LoopNext]_loopVars => [Hung => Hung']_loopVars
  BY LoopNextKeeps
<1> QED BY <1>1, LoopInductive, PTL DEF LoopSpec, HangLasts
=============================================================================
