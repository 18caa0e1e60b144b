--------------------------- MODULE MCSessionPage ----------------------------
(***************************************************************************)
(* SessionPage for TLC, with a history of the sessions about which the page *)
(* was told something that was not, or did not stay, what the server holds. *)
(***************************************************************************)
EXTENDS SessionPage, TLC

CONSTANTS a, b, c, d, e

MCIds == {a, b, c, d, e}
MCExisting == <<a, b, c>>

VARIABLES
  astray,  \* the sessions of which the last the page was told is not so
  latest   \* the reorder asked for last

hvars == <<vars, astray, latest>>

Faulted == counts'.faults > counts.faults

\* What a step tells the page: a row, or that there is none.
Row(new) == [id |-> new.id, new |-> new]
Out(id)  == [id |-> id, new |-> None]

ToldByList(list) == {Row(list[i]) : i \in DOMAIN list} \cup {Out(id) : id \in Ids \ ToSet(IdsOf(list))}

Told ==
  {IF updates[id].ended THEN Out(id) ELSE Row(Entry(id, updates[id])) :
     id \in {i \in Ids : updates[i] # NoRow /\ updates'[i] = NoRow}}
  \cup {Row(new) : new \in news \ news'}
  \cup {IF counts.page = "dashboard" THEN Out(g.new.id) ELSE Row(g.new) : g \in gone \ gone'}
  \cup UNION {ToldByList(IF Faulted THEN <<>> ELSE l.list) : l \in {k \in loads : \A m \in loads' : m.n # k.n}}

\* It is so, and no request of the page on its way will change it.
IsSo(t) ==
  IF t.new = None THEN t.id \notin DOMAIN rows \/ rows[t.id].ended
  ELSE /\ t.id \in DOMAIN rows /\ t.new = Entry(t.id, rows[t.id])
       /\ \A ids \in reorders : t.id \notin ToSet(ids)
       /\ \A s \in saves : s.id = t.id => s.written

\* A save that ended left the page with other tags than the server's.
OtherTags ==
  {s.id : s \in {z \in saves \ saves' : /\ [z EXCEPT !.written = TRUE] \notin saves' /\ z.id \in DOMAIN rows
                                        /\ rows[z.id].tags # IF Faulted THEN z.was ELSE z.tags}}

\* The server has served a reorder after the latest one.
Overtaken ==
  UNION {ToSet(ids) : ids \in {r \in reorders \ reorders' : ~Faulted /\ r # latest /\ latest \notin reorders}}

\* A touch drop has made the list anew without a session that came in meanwhile.
Dropped == IF drag # NoDrag /\ drag' = NoDrag THEN ToSet(IdsOf(sessions)) \ ToSet(IdsOf(sessions')) ELSE {}

HInit == Init /\ astray = {} /\ latest = None

HNext ==
  /\ Next
  /\ astray' = {id \in astray : \A t \in Told : t.id # id} \cup {t.id : t \in {x \in Told : ~IsSo(x)'}}
                 \cup OtherTags \cup Overtaken \cup Dropped
  /\ latest' = IF reorders' \subseteq reorders THEN latest ELSE CHOOSE r \in reorders' : r \notin reorders

HSpec == HInit /\ [][HNext]_hvars /\ WF_vars(CreateTimeout)

AtRest ==
  /\ reorders = {} /\ loads = {} /\ saves = {} /\ news = {} /\ gone = {}
  /\ \A id \in Ids : updates[id] = NoRow

=============================================================================
