--------------------------- MODULE DnsPodEditing ---------------------------
(***************************************************************************)
(* Every handler of DnsPodApply implements Editing.                        *)
(***************************************************************************)
EXTENDS DnsPodApply

\* A record as DNSPod holds it: on a line with a name, an ownership mark without
\* its quotes, which createRecord takes off.  Else two records could look the same
\* from outside.
Canonical(r) ==
  r.line # "" /\ (r.type = "TXT" /\ r.value.text \in Heritage => ~r.value.quoted)

ASSUME CanonicalAssumption ==
  \A S \in InitialLive \cup {ConsoleRecords} : \A r \in S : Canonical(r)
ASSUME HeldOnceAssumption ==
  \A S \in InitialLive : \A r, s \in S : SameRecord(r, s) => r = s

\* The lines asked for have names too.
ASSUME LinesAssumption ==
  /\ \A changes \in Requests : \A ep \in ToAdd(changes) : EndpointLine(ep) # ""
  /\ \A id \in DOMAIN Line : Line[id] # ""

\* No changes ask for one record with two weights or two statuses.
ASSUME AskedOnceAssumption ==
  \A changes \in Requests : \A a, b \in Additions(changes) : Key(a) = Key(b) => a = b

\* Handler h, seen from outside.
Poster(h) ==
  IF ~Active(h) THEN pc[h]
  ELSE IF pc[h] \in {"apply", "call"} /\ \A j \in todo[h] : j.op = "create" THEN "adding"
  ELSE "removing"

Edit(h) == INSTANCE Editing WITH
  NoRequest <- None,
  content   <- Contents(live),
  state     <- Poster(h),
  request   <- IF Active(h) THEN req[h] ELSE None,
  start     <- Contents(base[h]),
  touched   <- foreign[h]

\* Whatever other handlers and the console do, each handler edits the content
\* entry by entry, removals before additions, only as asked, so wherever it fails
\* or the webhook dies nothing else is missing or there; and it answers 204 only
\* when the outcome is reached in every slot nobody else touched, across retries
\* of calls already executed.  Until someone moves a record in place.
\* (Edit(h)!Spec for every h, written the way TLC takes it.)
EveryHandlerEdits ==
  /\ \A h \in Handlers : Edit(h)!Init
  /\ [][spent'["edits"] = 0 =>
         \A h \in Handlers : UNCHANGED Edit(h)!vars \/ Edit(h)!Next]_vars
=============================================================================
