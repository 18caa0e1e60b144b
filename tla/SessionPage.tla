---------------------------- MODULE SessionPage -----------------------------
(***************************************************************************)
(* What the user does to the list of sessions on the dashboard              *)
(* (pages/DashboardPage.tsx) and in the side pane of a session              *)
(* (pages/SessionDetailPage.tsx): drag rows, filter by tag, edit tags,      *)
(* delete and create, while the update feed changes the same list.          *)
(*                                                                         *)
(* An update is in flight from the moment its handler read the row until    *)
(* the page has it; a session's watcher has one in flight at a time, the    *)
(* last of them the "end".                                                 *)
(* Tags are compared as the code compares them, ignoring case.              *)
(***************************************************************************)
EXTENDS Integers, FiniteSets, SequencesExt

CONSTANTS
  Ids,        \* session ids
  Existing,   \* the sessions there are when the page opens, in order
  Tagged,     \* those of them that have tags then
  Tags,       \* tags
  MaxTags,    \* MAX_TAGS
  MaxMoves,   \* bound on what the user does and on the sessions that end
  MaxUpdates, \* bound on the updates on their way from watchers
  MaxFaults,  \* bound on the requests that fail
  None

ASSUME PageAssumption ==
  /\ Existing \in Seq(Ids) /\ Tagged \subseteq Ids /\ None \notin Ids
  /\ MaxTags \in Nat /\ MaxMoves \in Nat /\ MaxUpdates \in Nat /\ MaxFaults \in Nat

VARIABLES
  rows,      \* the database: seq and tags of each session there is
  sessions,  \* the page's list, as loaded and updated
  stored,    \* the tags ticked in the filter, kept in localStorage
  drag,      \* the row being dragged
  updates,   \* the update on its way from each session's watcher
  news,      \* the updates on their way from tag saves
  gone,      \* deletions, by their answer and their broadcast, on their way
  reorders,  \* reorder requests on their way
  loads,     \* lists asked for, and what was read
  saves,     \* tag saves on their way
  creating,  \* the session the SessionCreator waits for
  counts     \* which page it is; moves and faults so far; creations asked for, to start,
             \* reported, and replaced by a later one

vars == <<rows, sessions, stored, drag, updates, news, gone, reorders, loads, saves, creating, counts>>

NoDrag == [kind |-> "none", id |-> None, full |-> <<>>, shown |-> <<>>]
NoRow  == [seq |-> None, tags |-> {}, ended |-> FALSE]

Entry(id, row) == [id |-> id, seq |-> row.seq, tags |-> row.tags, ended |-> row.ended]

Move == counts.moves < MaxMoves /\ counts' = [counts EXCEPT !.moves = @ + 1]
Fault == counts.faults < MaxFaults /\ counts' = [counts EXCEPT !.faults = @ + 1]

-----------------------------------------------------------------------------
(* What is on the screen.                                                  *)

\* The place of i among the positions S, by key and, where keys are equal, as they stand.
Place(S, key, i) == Cardinality({j \in S : key[j] < key[i] \/ (key[j] = key[i] /\ j <= i)})

\* What list has at the positions S, each at its place.
Placed(list, S, key) ==
  [k \in 1 .. Cardinality(S) |-> list[CHOOSE i \in S : Place(S, key, i) = k]]

\* Array.prototype.filter: what list has at the positions S, in its order.
Kept(list, S) == Placed(list, S, [i \in S |-> 0])

\* sortBySeq: ascending, ties in the order of the list.
SortBySeq(list) == Placed(list, DOMAIN list, [i \in DOMAIN list |-> list[i].seq])

IdsOf(list) == [i \in DOMAIN list |-> list[i].id]
Ordered     == SortBySeq(sessions)

\* The rows as listSessions returns them, in the order of seq; the times that decide
\* between equals are not modelled.
Listings(db) ==
  {[i \in DOMAIN ids |-> Entry(ids[i], db[ids[i]])] :
     ids \in {p \in SetToSeqs(DOMAIN db) :
               \A i, j \in DOMAIN p : i < j => db[p[i]].seq <= db[p[j]].seq}}

\* allTags
AllTags(list) == UNION {list[i].tags : i \in DOMAIN list}

StaleFilter(selected, available) == selected

\* effectiveFilter: a tag no session has any more is ignored.
EffectiveFilter(selected, available) == selected \cap available

\* filterByTags: the sessions with any of the tags selected.
FilterByTags(list, selected) ==
  IF selected = {} THEN list ELSE Kept(list, {i \in DOMAIN list : list[i].tags \cap selected # {}})

\* useTagFilter
Selected == EffectiveFilter(stored, AllTags(sessions))
Visible  == FilterByTags(Ordered, Selected)

-----------------------------------------------------------------------------
(* Reordering.                                                             *)

VisibleFirst(full, shown) == shown \o SelectSeq(full, LAMBDA id : id \notin ToSet(shown))

\* mergeReorder: the rows shown take, in their new order, the slots they had.
MergeReorder(full, shown) ==
  LET here == {i \in DOMAIN full : full[i] \in ToSet(shown)}
  IN [i \in DOMAIN full |->
        IF i \in here THEN shown[Cardinality({j \in here : j <= i})] ELSE full[i]]

\* splice(to, 0, splice(from, 1)[0])
Spliced(s, from, to) == InsertAt(RemoveAt(s, from), to, s[from])

Position(s, x) == CHOOSE i \in DOMAIN s : s[i] = x

\* The row of the list with this id, renumbered; a row the list has lost is blank.
Renumbered(id, i) ==
  IF id \in ToSet(IdsOf(sessions))
  THEN [sessions[Position(IdsOf(sessions), id)] EXCEPT !.seq = i - 1]
  ELSE [id |-> None, seq |-> i - 1, tags |-> {}, ended |-> FALSE]

\* handleReorder: renumbers the list at once, then asks the server.
HandleReorder(full, shown) ==
  LET ids == MergeReorder(full, shown) IN
  /\ sessions' = [i \in DOMAIN ids |-> Renumbered(ids[i], i)]
  /\ reorders' = reorders \cup {ids}

\* Native drag and drop keeps the id; touch also the list it was grabbed in.
Grab(id, kind) ==
  /\ drag = NoDrag /\ id \in ToSet(IdsOf(Visible)) \ {None} /\ Move
  /\ drag' = [kind |-> kind, id |-> id,
              full  |-> IF kind = "touch" THEN IdsOf(Ordered) ELSE <<>>,
              shown |-> IF kind = "touch" THEN IdsOf(Visible) ELSE <<>>]
  /\ UNCHANGED <<rows, sessions, stored, updates, news, gone, reorders, loads, saves, creating>>

\* useDragReorder, finish: over the list as it is at the drop.
Drop(target) ==
  LET ids == IdsOf(Visible) IN
  /\ drag.kind = "mouse" /\ drag' = NoDrag
  /\ IF drag.id # target /\ drag.id \in ToSet(ids)
     THEN HandleReorder(IdsOf(Ordered), Spliced(ids, Position(ids, drag.id), Position(ids, target)))
     ELSE UNCHANGED <<sessions, reorders>>
  /\ UNCHANGED <<rows, stored, updates, news, gone, loads, saves, creating, counts>>

\* usePointerReorder, end: the handler of the render the drag began in.
Release(to) ==
  LET final == Spliced(drag.shown, Position(drag.shown, drag.id), to) IN
  /\ drag.kind = "touch" /\ drag' = NoDrag
  /\ IF final # IdsOf(Visible)
     THEN HandleReorder(drag.full, final)
     ELSE UNCHANGED <<sessions, reorders>>
  /\ UNCHANGED <<rows, stored, updates, news, gone, loads, saves, creating, counts>>

\* ReorderSessions, one transaction: ids that are gone update nothing.
ReorderServed(ids) ==
  /\ ids \in reorders /\ reorders' = reorders \ {ids}
  /\ rows' = [id \in DOMAIN rows |->
                IF id \in ToSet(ids) THEN [rows[id] EXCEPT !.seq = Position(ids, id) - 1] ELSE rows[id]]
  /\ UNCHANGED <<sessions, stored, drag, updates, news, gone, loads, saves, creating, counts>>


\* The catch reloads.
ReorderFails(ids) ==
  /\ ids \in reorders /\ Fault /\ reorders' = reorders \ {ids}
  /\ loads' = loads \cup {[n |-> counts'.faults, at |-> "asked", list |-> <<>>]}
  /\ UNCHANGED <<rows, sessions, stored, drag, updates, news, gone, saves, creating>>

\* loadSessions: the answers of two may cross.
LoadRead(l) ==
  /\ l \in loads /\ l.at = "asked"
  /\ \E list \in Listings(rows) :
       loads' = (loads \ {l}) \cup {[l EXCEPT !.at = "read", !.list = list]}
  /\ UNCHANGED <<rows, sessions, stored, drag, updates, news, gone, reorders, saves, creating, counts>>

LoadArrives(l) ==
  /\ l \in loads /\ l.at = "read" /\ sessions' = l.list /\ loads' = loads \ {l}
  /\ UNCHANGED <<rows, stored, drag, updates, news, gone, reorders, saves, creating, counts>>

LoadFails(l) ==
  /\ l \in loads /\ Fault /\ sessions' = <<>> /\ loads' = loads \ {l}
  /\ UNCHANGED <<rows, stored, drag, updates, news, gone, reorders, saves, creating>>

-----------------------------------------------------------------------------
(* Tags and their filter.                                                  *)

\* TagFilter, toggle and "Clear filter"; saveTagFilter.
SetFilter(next) ==
  /\ Move /\ \/ next = {} /\ Selected # {}
             \/ \E t \in AllTags(sessions) : next = IF t \in Selected THEN Selected \ {t} ELSE Selected \cup {t}
  /\ stored' = next
  /\ UNCHANGED <<rows, sessions, drag, updates, news, gone, reorders, loads, saves, creating>>

\* checkNewTag
CheckNewTag(t, existing) == t \notin existing /\ Cardinality(existing) < MaxTags

\* apply, in handleTagsChange
Apply(id, tags) ==
  sessions' = [i \in DOMAIN sessions |->
                 IF sessions[i].id = id THEN [sessions[i] EXCEPT !.tags = tags] ELSE sessions[i]]

\* TagEditor's add and remove, on the session page; handleTagsChange up to the await.
EditTags(i, t) ==
  LET s    == sessions[i]
      next == IF t \in s.tags THEN s.tags \ {t} ELSE s.tags \cup {t} IN
  /\ counts.page = "session" /\ Move /\ s.id # None /\ (t \in s.tags \/ CheckNewTag(t, s.tags))
  /\ Apply(s.id, next)
  /\ saves' = saves \cup {[id |-> s.id, tags |-> next, was |-> s.tags, written |-> FALSE]}
  /\ UNCHANGED <<rows, stored, drag, updates, news, gone, reorders, loads, creating>>

\* TagsHandler writes the tags and broadcasts the row with them.
SaveServed(s) ==
  /\ s \in saves /\ ~s.written /\ s.id \in DOMAIN rows
  /\ rows' = [rows EXCEPT ![s.id].tags = s.tags]
  /\ news' = news \cup {Entry(s.id, rows'[s.id])}
  /\ saves' = (saves \ {s}) \cup {[s EXCEPT !.written = TRUE]}
  /\ UNCHANGED <<sessions, stored, drag, updates, gone, reorders, loads, creating, counts>>

SaveAnswered(s) ==
  /\ s \in saves /\ s.written /\ saves' = saves \ {s} /\ Apply(s.id, s.tags)
  /\ UNCHANGED <<rows, stored, drag, updates, news, gone, reorders, loads, creating, counts>>

\* The catch restores the tags there were when the save was sent.
SaveFails(s) ==
  /\ s \in saves /\ saves' = saves \ {s} /\ Apply(s.id, s.was)
  /\ \/ s.id \notin DOMAIN rows /\ counts' = counts
     \/ Fault
  /\ UNCHANGED <<rows, stored, drag, updates, news, gone, reorders, loads, creating>>

-----------------------------------------------------------------------------
(* The feed, deletion and creation.                                        *)

\* The middleware reads the row a ping, an activity or a change is about.
UpdateRead(id) ==
  /\ id \in DOMAIN rows /\ ~rows[id].ended /\ updates[id] = NoRow
  /\ Cardinality({i \in Ids : updates[i] # NoRow}) < MaxUpdates
  /\ updates' = [updates EXCEPT ![id] = rows[id]]
  /\ UNCHANGED <<rows, sessions, stored, drag, news, gone, reorders, loads, saves, creating, counts>>

\* EndHandler: the row stays, as ended, and its watcher has said its last.
SessionEnds(id) ==
  /\ id \in DOMAIN rows /\ ~rows[id].ended /\ updates[id] = NoRow
  /\ Cardinality({i \in Ids : updates[i] # NoRow}) < MaxUpdates
  /\ Move
  /\ rows' = [rows EXCEPT ![id].ended = TRUE] /\ updates' = [updates EXCEPT ![id] = rows'[id]]
  /\ UNCHANGED <<sessions, stored, drag, news, gone, reorders, loads, saves, creating>>

\* matchesNewSession: the session asked for has announced itself.
MatchesNewSession(event, id) == event # "end" /\ creating = id

Without(id) == Kept(sessions, {i \in DOMAIN sessions : sessions[i].id # id})

\* What handleUpdate removes: the session page does not know "delete".
Removes(event) == event = "end" \/ (event = "delete" /\ counts.page = "dashboard")

\* handleUpdate of the page: the row goes, replaces the one listed, or comes first.
HandleUpdate(event, new) ==
  sessions' = IF Removes(event) THEN Without(new.id)
              ELSE IF new.id \in ToSet(IdsOf(sessions))
              THEN [i \in DOMAIN sessions |-> IF sessions[i].id = new.id THEN new ELSE sessions[i]]
              ELSE <<new>> \o sessions

\* handleUpdate of the SessionCreator, while there is one.
CreatorHears(event, id) ==
  IF MatchesNewSession(event, id)
  THEN creating' = None /\ counts' = [counts EXCEPT !.reported = @ + 1]
  ELSE UNCHANGED <<creating, counts>>

\* Both hear an update.
Hear(event, new) == HandleUpdate(event, new) /\ CreatorHears(event, new.id)

UpdateArrives(id) ==
  /\ updates[id] # NoRow
  /\ Hear(IF updates[id].ended THEN "end" ELSE "ping", Entry(id, updates[id]))
  /\ updates' = [updates EXCEPT ![id] = NoRow]
  /\ UNCHANGED <<rows, stored, drag, news, gone, reorders, loads, saves>>

NewsArrives(new) ==
  /\ new \in news /\ news' = news \ {new} /\ Hear("tags", new)
  /\ UNCHANGED <<rows, stored, drag, updates, gone, reorders, loads, saves>>

\* DeleteSessionHandler, asked by this dashboard or, for a session page, by another tab.
DeleteSession(id) ==
  /\ id \in ToSet(IdsOf(sessions)) \cap DOMAIN rows /\ Move
  /\ rows' = [r \in DOMAIN rows \ {id} |-> rows[r]]
  /\ gone' = gone \cup {[by |-> by, new |-> Entry(id, rows[id])] :
                          by \in {"broadcast"} \cup IF counts.page = "dashboard" THEN {"answer"} ELSE {}}
  /\ UNCHANGED <<sessions, stored, drag, updates, news, reorders, loads, saves, creating>>

\* handleDeleteSession goes on.
DeleteAnswered(d) ==
  /\ d \in gone /\ d.by = "answer" /\ gone' = gone \ {d} /\ sessions' = Without(d.new.id)
  /\ UNCHANGED <<rows, stored, drag, updates, news, reorders, loads, saves, creating, counts>>

DeleteHeard(d) ==
  /\ d \in gone /\ d.by = "broadcast" /\ gone' = gone \ {d} /\ Hear("delete", d.new)
  /\ UNCHANGED <<rows, stored, drag, updates, news, reorders, loads, saves>>

\* NewSessionButton of the dashboard.  SessionCreator is mounted and its timer starts;
\* one that is mounted goes on with the new name and the timer it has.
NewSession(id) ==
  /\ counts.page = "dashboard" /\ counts.moves < MaxMoves
  /\ id \notin ToSet(Existing) \cup DOMAIN rows \cup counts.starts
  /\ creating' = id
  /\ counts' = [counts EXCEPT !.moves = @ + 1, !.asked = @ + 1, !.starts = @ \cup {id},
                              !.replaced = IF creating = None THEN @ ELSE @ + 1]
  /\ UNCHANGED <<rows, sessions, stored, drag, updates, news, gone, reorders, loads, saves>>

\* devsesh start on the host, perhaps too late: CreateSession appends the row,
\* and it is announced.
HostStarts(id) ==
  /\ id \in counts.starts /\ updates[id] = NoRow
  /\ counts' = [counts EXCEPT !.starts = @ \ {id}]
  /\ LET last == {rows[r].seq : r \in DOMAIN rows} \cup {-1}
         row  == [seq |-> 1 + CHOOSE m \in last : \A n \in last : n <= m, tags |-> {}, ended |-> FALSE]
     IN  /\ rows' = [r \in DOMAIN rows \cup {id} |-> IF r = id THEN row ELSE rows[r]]
         /\ updates' = [updates EXCEPT ![id] = row]
  /\ UNCHANGED <<sessions, stored, drag, news, gone, reorders, loads, saves, creating>>

NoTimer == FALSE /\ UNCHANGED vars

\* CREATE_TIMEOUT_MS pass: onError.
CreateTimeout ==
  /\ creating # None /\ creating' = None /\ counts' = [counts EXCEPT !.reported = @ + 1]
  /\ UNCHANGED <<rows, sessions, stored, drag, updates, news, gone, reorders, loads, saves>>

-----------------------------------------------------------------------------
Init ==
  /\ rows = [id \in ToSet(Existing) |->
               [seq |-> Position(Existing, id) - 1, tags |-> IF id \in Tagged THEN Tags ELSE {},
                ended |-> FALSE]]
  /\ sessions \in Listings(rows) /\ stored \in SUBSET Tags /\ drag = NoDrag
  /\ updates = [id \in Ids |-> NoRow] /\ news = {} /\ gone = {} /\ reorders = {} /\ loads = {} /\ saves = {}
  /\ creating = None
  /\ \E page \in {"dashboard", "session"} :
       counts = [page |-> page, moves |-> 0, faults |-> 0, asked |-> 0, starts |-> {},
                 reported |-> 0, replaced |-> 0]

Answers ==
  \/ \E ids \in reorders : ReorderServed(ids)
  \/ \E l \in loads : LoadRead(l) \/ LoadArrives(l)
  \/ \E s \in saves : SaveServed(s) \/ SaveAnswered(s)
  \/ \E new \in news : NewsArrives(new)
  \/ \E d \in gone : DeleteAnswered(d) \/ DeleteHeard(d)
  \/ CreateTimeout

User ==
  \/ \E id \in Ids : \/ Grab(id, "mouse") \/ Grab(id, "touch") \/ DeleteSession(id) \/ NewSession(id)
  \/ \E target \in ToSet(IdsOf(Visible)) : Drop(target)
  \/ \E to \in DOMAIN drag.shown : Release(to)
  \/ \E next \in SUBSET Tags : SetFilter(next)
  \/ \E i \in DOMAIN sessions, t \in Tags : EditTags(i, t)

Next ==
  \/ Answers \/ User
  \/ \E id \in Ids : UpdateRead(id) \/ UpdateArrives(id) \/ SessionEnds(id) \/ HostStarts(id)
  \/ \E ids \in reorders : ReorderFails(ids)
  \/ \E l \in loads : LoadFails(l)
  \/ \E s \in saves : SaveFails(s)

Spec == Init /\ [][Next]_vars

\* The timer fires, in whatever the page is doing.
FairSpec == Spec /\ WF_vars(CreateTimeout)

-----------------------------------------------------------------------------
(* Properties.                                                             *)

(* The list is not empty because of a tag nobody can see or untick: while   *)
(* there are sessions some are shown, whatever the filter kept in the       *)
(* browser names and whichever session lost the tag, or went.               *)
FilterShowsSome == sessions # <<>> => Visible # <<>>

(* The end of a drag loses no session, shows none twice, makes no blank row *)
(* and leaves the rows the filter hides in their slots, though updates,     *)
(* deletions and changes of the filter came in meanwhile: for the mouse     *)
(* always, for touch while the list holds the sessions it was grabbed in.   *)
DropKeepsList ==
  [][LET touch == drag.kind = "touch"
         base  == IF touch THEN drag.full ELSE IdsOf(Ordered)
         shown == ToSet(IF touch THEN drag.shown ELSE IdsOf(Visible))
         after == IdsOf(Ordered')
     IN  drag # NoDrag /\ drag' = NoDrag /\ ToSet(base) = ToSet(IdsOf(sessions))
           => /\ ToSet(after) = ToSet(base) /\ Len(after) = Len(base)
              /\ sessions' # sessions => \A i \in DOMAIN base : base[i] \notin shown => after[i] = base[i]]_vars

(* Every session asked for is reported once, as started or as timed out,    *)
(* and the page stops waiting, although the update and the timer may both   *)
(* come: except the ones that a later request took the place of, of which   *)
(* nothing is ever said.                                                   *)
CreateReported ==
  /\ [](counts.reported + counts.replaced <= counts.asked)
  /\ <>[](counts.reported + counts.replaced = counts.asked)
=============================================================================
