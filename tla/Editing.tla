------------------------------ MODULE Editing ------------------------------
(***************************************************************************)
(* The abstract specification of ApplyChanges, as one poster of changes    *)
(* sees it: an edit of the content of the zones, entry by entry, amid      *)
(* others who edit it too.  There are no records, ids, snapshots, calls or *)
(* attempts here.  DnsPodEditing shows that every handler implements it.   *)
(***************************************************************************)
EXTENDS ZoneEdit

CONSTANTS Requests, NoRequest

VARIABLES
  content,   \* the entries of the account
  state,     \* of the poster: idle, removing, adding, ok or failed
  request,   \* the changes at work, or NoRequest
  start,     \* the content they were posted on
  touched    \* the slots others have changed since

vars == <<content, state, request, start, touched>>

Busy == state \in {"removing", "adding"}
Untouched(S) == {e \in S : Slot(e) \notin touched}
Changing == (content \ content') \cup (content' \ content)

Init ==
  /\ state = "idle"
  /\ request = NoRequest
  /\ start = {} /\ touched = {}

Begin ==
  /\ ~Busy
  /\ state' = "removing"
  /\ request' \in Requests
  /\ start' = content
  /\ UNCHANGED <<content, touched>>

\* No changes are answered at once.
BeginNothing ==
  /\ ~Busy
  /\ state' = "ok"
  /\ \E changes \in Requests : ToRemove(changes) \cup ToAdd(changes) = {}
  /\ UNCHANGED <<content, request, start, touched>>

\* Removals go on until all there was to remove, and nobody else touched, is gone.
GoOn ==
  /\ state = "removing"
  /\ \/ state' = "removing"
     \/ state' = "adding" /\ \A e \in Untouched(content') : ~AskedToRemove(request, e)
  /\ UNCHANGED <<request, start, touched>>

TakeOut == \E e \in content : AskedToRemove(request, e) /\ content' = content \ {e}
PutIn == \E a \in Additions(request) :
           /\ \A e \in content : Key(e) # Key(a)
           /\ content' = content \cup {a}

Remove == GoOn /\ TakeOut
Turn == GoOn /\ UNCHANGED content
Add == state = "adding" /\ PutIn /\ UNCHANGED <<state, request, start, touched>>

End(result) ==
  /\ state' = result
  /\ request' = NoRequest
  /\ start' = {} /\ touched' = {}

Succeed ==
  /\ state = "adding"
  /\ Untouched(content) = Untouched(Outcome(request, start))
  /\ End("ok") /\ UNCHANGED content

\* Failing undoes nothing, and the last edit may have been made all the same.
Fail ==
  /\ Busy
  /\ UNCHANGED content \/ (state = "removing" /\ TakeOut) \/ (state = "adding" /\ PutIn)
  /\ End("failed")

\* Others edit what they like.
Meddle ==
  /\ touched' = IF Busy THEN touched \cup {Slot(e) : e \in Changing} ELSE {}
  /\ UNCHANGED <<state, request, start>>

Next ==
  \/ Begin \/ BeginNothing \/ Remove \/ Turn \/ Add \/ Succeed \/ Fail \/ Meddle

Spec == Init /\ [][Next]_vars
=============================================================================
