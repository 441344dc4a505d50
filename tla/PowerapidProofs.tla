--------------------------- MODULE PowerapidProofs ---------------------------
(***************************************************************************)
(* Theorems about powerapid, for any number of connections, paths, values  *)
(* and requests, with crashes, restarts, dying clients and data races.     *)
(*                                                                         *)
(* Six parts: what the sorted insertion and the removal of glib return;    *)
(* the types; the change lists and the tables; the sysfs files; the        *)
(* answers; and the daemon as an implementation of the arbiter, where      *)
(* every step maps to a step of the arbiter or to a stutter.               *)
(***************************************************************************)
EXTENDS PowerapidArbiter, FiniteSetTheorems, WellFoundedInduction, TLAPS

(***************************************************************************)
(* The lists of glib, and that they stay in the order of priority.         *)
(***************************************************************************)
\* Every nonempty set of numbers has a least element.
LEMMA Least ==
    ASSUME NEW T \in SUBSET Nat, T # {}
    PROVE  \E x \in T : \A y \in T : x <= y
<1> DEFINE R == {ss \in Nat \X Nat : ss[1] < ss[2]}
<1>1. IsWellFoundedOn(R, Nat)
  BY NatLessThanWellFounded, Zenon DEF OpToRel
<1>2. \A x, y \in Nat : y < x => <<y, x>> \in R
  OBVIOUS
<1> HIDE DEF R
<1>3. PICK x \in T : \A y \in T : ~ (<<y, x>> \in R)
  BY <1>1, WFMin
<1>4. ASSUME NEW y \in T PROVE x <= y
  <2>1. x \in Nat /\ y \in Nat
    OBVIOUS
  <2>2. ~ (y < x)
    BY <2>1, <1>2, <1>3
  <2> QED BY <2>1, <2>2
<1> QED BY <1>4

\* The comparison functions of pwrapi_set.c return -1, 0 or 1.
LEMMA CompType ==
    ASSUME NEW a, NEW s1, NEW s2,
           s1.val \in Int, s2.val \in Int, s1.ts \in Int, s2.ts \in Int
    PROVE  attr_value_comp(a, s1, s2) \in {-1, 0, 1}
<1>1. value_compare(s1.val, s2.val) \in {-1, 0, 1}
  BY DEF value_compare
<1>2. value_compare(s2.val, s1.val) \in {-1, 0, 1}
  BY DEF value_compare
<1>3. gov_compare(s1, s2) \in {-1, 0, 1}
  BY DEF gov_compare
<1> QED BY <1>1, <1>2, <1>3 DEF attr_value_comp

\* g_slist_insert_sorted always finds the place for the new element.
LEMMA InsertPosExists ==
    ASSUME NEW a, NEW E, NEW l \in Seq(E), NEW e,
           \A i \in 1 .. Len(l) : attr_value_comp(a, e, l[i]) \in Int
    PROVE  /\ InsertPos(a, l, e) \in 1 .. Len(l) + 1
           /\ InsertPos(a, l, e) <= Len(l)
                => attr_value_comp(a, e, l[InsertPos(a, l, e)]) <= 0
           /\ \A j \in 1 .. InsertPos(a, l, e) - 1 : attr_value_comp(a, e, l[j]) > 0
<1> DEFINE stop(i) == i <= Len(l) => attr_value_comp(a, e, l[i]) <= 0
           T == {i \in 1 .. Len(l) + 1 : stop(i)}
<1>1. Len(l) \in Nat
  OBVIOUS
<1>2. T \in SUBSET Nat /\ Len(l) + 1 \in T
  BY <1>1
<1>3. PICK x \in T : \A y \in T : x <= y
  BY <1>2, Least
<1>4. ASSUME NEW j \in 1 .. x - 1 PROVE attr_value_comp(a, e, l[j]) > 0
  <2>1. j \in 1 .. Len(l) /\ ~ (x <= j)
    BY <1>1, <1>3
  <2>2. j \notin T
    BY <1>3, <2>1
  <2> QED BY <2>1, <2>2
<1>5. x \in 1 .. Len(l) + 1 /\ stop(x)
  BY <1>3
<1> QED BY <1>4, <1>5 DEF InsertPos

\* The requests the lists hold.
Requests(E) == \A e \in E : e.val \in Int /\ e.ts \in Int

\* A list of requests with a new one inserted: length, elements, type.
LEMMA InsertSortedType ==
    ASSUME NEW a, NEW E, Requests(E), NEW l \in Seq(E), NEW e \in E
    PROVE  /\ InsertPos(a, l, e) \in 1 .. Len(l) + 1
           /\ InsertSorted(a, l, e) \in Seq(E)
           /\ Len(InsertSorted(a, l, e)) = Len(l) + 1
<1> DEFINE pos == InsertPos(a, l, e)
           m == InsertSorted(a, l, e)
<1>1. \A i \in 1 .. Len(l) : l[i] \in E
  OBVIOUS
<1>2. \A i \in 1 .. Len(l) : attr_value_comp(a, e, l[i]) \in Int
  <2> TAKE i \in 1 .. Len(l)
  <2> QED BY <1>1, CompType DEF Requests
<1>3. pos \in 1 .. Len(l) + 1
  BY <1>2, InsertPosExists
<1> HIDE DEF pos
<1>4. m = [i \in 1 .. Len(l) + 1 |-> IF i < pos THEN l[i]
                                    ELSE IF i = pos THEN e ELSE l[i - 1]]
  BY DEF InsertSorted, pos
<1>5. m \in [1 .. Len(l) + 1 -> E]
  BY <1>1, <1>3, <1>4
<1>6. m \in Seq(E) /\ Len(m) = Len(l) + 1
  BY <1>5
<1> QED BY <1>3, <1>6 DEF pos

\* A list of requests with one removed.
LEMMA RemoveOwnerType ==
    ASSUME NEW E, NEW l \in Seq(E), NEW o
    PROVE  RemoveOwner(l, o) \in Seq(E)
<1>1. CASE ~ Holds(l, o)
  BY <1>1 DEF RemoveOwner
<1>2. CASE Holds(l, o)
  <2> DEFINE pos == CHOOSE i \in DOMAIN l : l[i].own = o
  <2>1. pos \in 1 .. Len(l)
    BY <1>2 DEF Holds
  <2> HIDE DEF pos
  <2>2. RemoveOwner(l, o) = [i \in 1 .. Len(l) - 1 |-> IF i < pos THEN l[i] ELSE l[i + 1]]
    BY <1>2 DEF RemoveOwner, pos
  <2>3. RemoveOwner(l, o) \in [1 .. Len(l) - 1 -> E]
    BY <2>1, <2>2
  <2>4. Len(l) - 1 \in Nat
    BY <2>1
  <2> QED BY <2>3, <2>4
<1> QED BY <1>1, <1>2

\* An insertion adds the new request and nothing else.
LEMMA InsertSortedElements ==
    ASSUME NEW a, NEW E, Requests(E), NEW l \in Seq(E), NEW e \in E
    PROVE  \A i \in DOMAIN InsertSorted(a, l, e) :
              \/ InsertSorted(a, l, e)[i] = e
              \/ \E j \in DOMAIN l : InsertSorted(a, l, e)[i] = l[j]
<1> DEFINE pos == InsertPos(a, l, e)
           m == InsertSorted(a, l, e)
<1>1. pos \in 1 .. Len(l) + 1
  BY InsertSortedType
<1> HIDE DEF pos
<1>2. m = [i \in 1 .. Len(l) + 1 |-> IF i < pos THEN l[i]
                                    ELSE IF i = pos THEN e ELSE l[i - 1]]
  BY DEF InsertSorted, pos
<1> HIDE DEF m
<1>3. ASSUME NEW i \in DOMAIN m PROVE m[i] = e \/ \E j \in DOMAIN l : m[i] = l[j]
  <2>1. i \in 1 .. Len(l) + 1
    BY <1>2
  <2>2. CASE i < pos
    BY <1>1, <1>2, <2>1, <2>2
  <2>3. CASE i = pos
    BY <1>2, <2>1, <2>3
  <2>4. CASE i > pos
    <3>1. m[i] = l[i - 1] /\ i - 1 \in DOMAIN l
      BY <1>1, <1>2, <2>1, <2>4
    <3> QED BY <3>1
  <2> QED BY <1>1, <2>1, <2>2, <2>3, <2>4
<1> QED BY <1>3 DEF m

\* A removal adds nothing.
LEMMA RemoveOwnerElements ==
    ASSUME NEW E, NEW l \in Seq(E), NEW o
    PROVE  \A i \in DOMAIN RemoveOwner(l, o) :
              \E j \in DOMAIN l : RemoveOwner(l, o)[i] = l[j]
<1>1. CASE ~ Holds(l, o)
  BY <1>1 DEF RemoveOwner
<1>2. CASE Holds(l, o)
  <2> DEFINE pos == CHOOSE i \in DOMAIN l : l[i].own = o
             m == RemoveOwner(l, o)
  <2>1. pos \in 1 .. Len(l)
    BY <1>2 DEF Holds
  <2> HIDE DEF pos
  <2>2. m = [i \in 1 .. Len(l) - 1 |-> IF i < pos THEN l[i] ELSE l[i + 1]]
    BY <1>2 DEF RemoveOwner, pos
  <2> HIDE DEF m
  <2>3. ASSUME NEW i \in DOMAIN m PROVE \E j \in DOMAIN l : m[i] = l[j]
    <3>1. i \in 1 .. Len(l) - 1 /\ i \in DOMAIN l /\ i + 1 \in DOMAIN l
      BY <2>1, <2>2
    <3>2. m[i] = l[i] \/ m[i] = l[i + 1]
      BY <2>2, <3>1
    <3> QED BY <3>1, <3>2
  <2> QED BY <2>3 DEF m
<1> QED BY <1>1, <1>2

\* After an insertion the new request or the old head comes first.
LEMMA InsertHead ==
    ASSUME NEW a, NEW E, Requests(E), NEW l \in Seq(E), NEW e \in E
    PROVE  /\ InsertSorted(a, l, e) # <<>>
           /\ \/ InsertSorted(a, l, e)[1] = e
              \/ l # <<>> /\ InsertSorted(a, l, e)[1] = l[1]
<1> DEFINE pos == InsertPos(a, l, e)
           m == InsertSorted(a, l, e)
<1>1. pos \in 1 .. Len(l) + 1 /\ m \in Seq(E) /\ Len(m) = Len(l) + 1
  BY InsertSortedType
<1> HIDE DEF pos
<1>2. m = [i \in 1 .. Len(l) + 1 |-> IF i < pos THEN l[i]
                                    ELSE IF i = pos THEN e ELSE l[i - 1]]
  BY DEF InsertSorted, pos
<1>3. CASE pos = 1
  BY <1>1, <1>2, <1>3
<1>4. CASE pos # 1
  <2>1. 1 < pos /\ Len(l) \in Nat /\ Len(l) # 0
    BY <1>1, <1>4
  <2> QED BY <1>1, <1>2, <2>1
<1> QED BY <1>3, <1>4

\* A removal of a request that does not come first leaves the head.
LEMMA RemoveHead ==
    ASSUME NEW E, NEW l \in Seq(E), NEW o, l # <<>>, l[1].own # o
    PROVE  RemoveOwner(l, o) # <<>> /\ RemoveOwner(l, o)[1] = l[1]
<1>1. CASE ~ Holds(l, o)
  BY <1>1 DEF RemoveOwner
<1>2. CASE Holds(l, o)
  <2> DEFINE pos == CHOOSE i \in DOMAIN l : l[i].own = o
             m == RemoveOwner(l, o)
  <2>1. pos \in 1 .. Len(l) /\ l[pos].own = o
    BY <1>2 DEF Holds
  <2> HIDE DEF pos
  <2>2. m = [i \in 1 .. Len(l) - 1 |-> IF i < pos THEN l[i] ELSE l[i + 1]]
    BY <1>2 DEF RemoveOwner, pos
  <2>3. 1 < pos /\ Len(l) - 1 \in Nat \ {0} /\ 1 \in 1 .. Len(l) - 1
    <3>1. pos # 1 /\ Len(l) \in Nat
      BY <2>1
    <3> QED BY <2>1, <3>1
  <2>4. m \in Seq(E) /\ Len(m) = Len(l) - 1
    <3>1. m \in [1 .. Len(l) - 1 -> E]
      BY <2>1, <2>2
    <3> QED BY <2>3, <3>1
  <2> HIDE DEF m
  <2>5. m[1] = l[1]
    BY <2>1, <2>2, <2>3
  <2>6. m # <<>>
    BY <2>3, <2>4
  <2> QED BY <2>5, <2>6 DEF m
<1> QED BY <1>1, <1>2

-----------------------------------------------------------------------------
(* Order                                                                   *)

\* Removing a request leaves the others in order (set_remove).
LEMMA RemoveKeepsSorted ==
    ASSUME NEW a, NEW E, NEW l \in Seq(E), NEW o, SortedList(a, l)
    PROVE  SortedList(a, RemoveOwner(l, o))
<1>1. CASE ~ Holds(l, o)
  BY <1>1 DEF RemoveOwner
<1>2. CASE Holds(l, o)
  <2> DEFINE pos == CHOOSE i \in DOMAIN l : l[i].own = o
             m == RemoveOwner(l, o)
             from(i) == IF i < pos THEN i ELSE i + 1
  <2>1. pos \in 1 .. Len(l)
    BY <1>2 DEF Holds
  <2> HIDE DEF pos
  <2>2. m = [i \in 1 .. Len(l) - 1 |-> IF i < pos THEN l[i] ELSE l[i + 1]]
    BY <1>2 DEF RemoveOwner, pos
  <2> HIDE DEF m
  <2>3. DOMAIN m = 1 .. Len(l) - 1 /\ DOMAIN l = 1 .. Len(l)
    BY <2>2
  <2>4. ASSUME NEW i \in DOMAIN m, NEW j \in DOMAIN m, i < j
        PROVE  attr_value_comp(a, m[i], m[j]) <= 0
    <3>1. from(i) \in DOMAIN l /\ from(j) \in DOMAIN l /\ from(i) < from(j)
      BY <2>1, <2>3, <2>4
    <3>2. m[i] = l[from(i)] /\ m[j] = l[from(j)]
      BY <2>1, <2>2, <2>3
    <3> HIDE DEF from
    <3> QED BY <3>1, <3>2 DEF SortedList
  <2> QED BY <2>4 DEF SortedList, m
<1> QED BY <1>1, <1>2

\* What a new request must satisfy so that its place, which the comparison with
\* the elements in front of it alone determines, is right for those behind it
\* too.
Fits(a, l, e) ==
    /\ \A i \in DOMAIN l : attr_value_comp(a, e, l[i]) > 0
                              => attr_value_comp(a, l[i], e) <= 0
    /\ \A i, j \in DOMAIN l : i < j /\ attr_value_comp(a, e, l[i]) <= 0
                              => attr_value_comp(a, e, l[j]) <= 0

\* Inserting such a request keeps the list in order (set_insert).
LEMMA InsertKeepsSorted ==
    ASSUME NEW a, NEW E, Requests(E), NEW l \in Seq(E), NEW e \in E,
           SortedList(a, l), Fits(a, l, e)
    PROVE  SortedList(a, InsertSorted(a, l, e))
<1> DEFINE pos == InsertPos(a, l, e)
           m == InsertSorted(a, l, e)
           from(i) == IF i < pos THEN i ELSE i - 1
<1>1. \A i \in 1 .. Len(l) : attr_value_comp(a, e, l[i]) \in Int
  <2> TAKE i \in 1 .. Len(l)
  <2>1. l[i] \in E
    OBVIOUS
  <2> QED BY <2>1, CompType DEF Requests
<1>2. /\ pos \in 1 .. Len(l) + 1
      /\ pos <= Len(l) => attr_value_comp(a, e, l[pos]) <= 0
      /\ \A j \in 1 .. pos - 1 : attr_value_comp(a, e, l[j]) > 0
  BY <1>1, InsertPosExists
<1> HIDE DEF pos
<1>3. m = [i \in 1 .. Len(l) + 1 |-> IF i < pos THEN l[i]
                                    ELSE IF i = pos THEN e ELSE l[i - 1]]
  BY DEF InsertSorted, pos
<1> HIDE DEF m
<1>4. DOMAIN m = 1 .. Len(l) + 1 /\ DOMAIN l = 1 .. Len(l) /\ Len(l) \in Nat
  BY <1>3
<1>5. \A j \in pos .. Len(l) : attr_value_comp(a, e, l[j]) <= 0
  BY <1>2, <1>4 DEF Fits
<1>6. \A j \in 1 .. pos - 1 : attr_value_comp(a, l[j], e) <= 0
  BY <1>2, <1>4 DEF Fits
<1>7. ASSUME NEW i \in DOMAIN m, NEW j \in DOMAIN m, i < j
      PROVE  attr_value_comp(a, m[i], m[j]) <= 0
  <2>1. CASE i = pos
    <3>1. m[i] = e /\ m[j] = l[j - 1] /\ j - 1 \in pos .. Len(l)
      BY <1>2, <1>3, <1>4, <1>7, <2>1
    <3> QED BY <3>1, <1>5
  <2>2. CASE j = pos
    <3>1. m[j] = e /\ m[i] = l[i] /\ i \in 1 .. pos - 1
      BY <1>2, <1>3, <1>4, <1>7, <2>2
    <3> QED BY <3>1, <1>6
  <2>3. CASE i # pos /\ j # pos
    <3>1. from(i) \in DOMAIN l /\ from(j) \in DOMAIN l /\ from(i) < from(j)
      BY <1>2, <1>4, <1>7, <2>3
    <3>2. m[i] = l[from(i)] /\ m[j] = l[from(j)]
      BY <1>2, <1>3, <1>4, <2>3
    <3> HIDE DEF from
    <3> QED BY <3>1, <3>2 DEF SortedList
  <2> QED BY <2>1, <2>2, <2>3
<1> QED BY <1>7 DEF SortedList, m

\* For the attributes that are ordered by their value every request fits.
LEMMA LimitFits ==
    ASSUME NEW a \in LowerWins \cup HigherWins, NEW E, Requests(E),
           NEW l \in Seq(E), NEW e \in E, SortedList(a, l)
    PROVE  Fits(a, l, e)
<1>1. \A i \in DOMAIN l : l[i] \in E
  OBVIOUS
<1>2. e.val \in Int /\ \A i \in DOMAIN l : l[i].val \in Int
  BY <1>1 DEF Requests
<1>3. CASE a \in LowerWins
  BY <1>2, <1>3 DEF Fits, SortedList, attr_value_comp, value_compare
<1>4. CASE a \notin LowerWins /\ a \in HigherWins
  BY <1>2, <1>4 DEF Fits, SortedList, attr_value_comp, value_compare
<1> QED BY <1>3, <1>4

\* A governor request fits if it is newer than the others.
LEMMA GovernorFits ==
    ASSUME NEW E, Requests(E), NEW l \in Seq(E), NEW e \in E,
           SortedList("GOV", l), \A i \in DOMAIN l : l[i].ts < e.ts
    PROVE  Fits("GOV", l, e)
<1>1. \A i \in DOMAIN l : l[i] \in E
  OBVIOUS
<1>2. /\ e.val \in Int /\ e.ts \in Int
      /\ \A i \in DOMAIN l : l[i].val \in Int /\ l[i].ts \in Int
  BY <1>1 DEF Requests
<1>3. "GOV" \notin LowerWins /\ "GOV" \notin HigherWins
  BY DEF LowerWins, HigherWins
<1>4. \A s1, s2 : attr_value_comp("GOV", s1, s2) = gov_compare(s1, s2)
  BY <1>3 DEF attr_value_comp
<1>5. ASSUME NEW i \in DOMAIN l, gov_compare(e, l[i]) > 0
      PROVE  gov_compare(l[i], e) <= 0
  BY <1>2, <1>5 DEF gov_compare
<1>6. ASSUME NEW i \in DOMAIN l, NEW j \in DOMAIN l, i < j, gov_compare(e, l[i]) <= 0
      PROVE  gov_compare(e, l[j]) <= 0
  <2>1. gov_compare(l[i], l[j]) <= 0
    BY <1>4, <1>6 DEF SortedList
  <2> QED BY <1>2, <1>6, <2>1 DEF gov_compare
<1> QED BY <1>4, <1>5, <1>6 DEF Fits

(***************************************************************************)
(* The types.                                                              *)
(***************************************************************************)
\* What the types rest on: the socket the main thread works on is one it
\* watches, the worker's request has a socket, a connection is in one place.
Places ==
    /\ mpc \in {"destruct", "dump"} => cur \in incoming
    /\ mpc = "final" => cur \in Conns
    /\ mpc \in {"scan", "destruct", "dump"} => sel \subseteq incoming \cup {NAMED}
    /\ mpc = "destruct" => cur \notin sel
    /\ mpc \in {"reset", "final"} => sel \subseteq Conns
    /\ WorkerInLists => item.own \in Conns
    /\ \A c \in backlog : c \notin incoming
    /\ \A c \in backlog \cup incoming : cli[c] # "new"
    /\ ~ Alive => incoming = {} /\ backlog = {}

IInv == TypeOK /\ Places /\ ClientsCounted

-----------------------------------------------------------------------------
LEMMA EntryIsRequest == Requests(Entry)
<1> SUFFICES ASSUME NEW e \in Entry PROVE e.val \in Int /\ e.ts \in Int
  BY DEF Requests
<1>1. e.val \in Values /\ e.ts \in Nat
  BY DEF Entry
<1>2. \A v \in Values : v \in Int
  BY PowerapidAssumption
<1>3. e.val \in Int
  BY <1>1, <1>2
<1>4. e.ts \in Int
  BY <1>1
<1> QED BY <1>3, <1>4

LEMMA StopItemType == StopItem \in Item
<1>1. (CHOOSE p \in Paths : TRUE) \in Paths /\ (CHOOSE v \in Values : TRUE) \in Values
  BY PowerapidAssumption
<1> QED BY <1>1 DEF StopItem, Item

\* Init establishes the types.
LEMMA TypeInit == Init => TypeOK
<1> SUFFICES ASSUME Init PROVE TypeOK
  OBVIOUS
<1>1. StopItem \in Item
  BY StopItemType
<1>2. InitFile \in [Paths -> Values]
  BY PowerapidAssumption
<1>3. /\ cli \in [Conns -> {"new", "idle", "waiting", "gone"}] /\ reqs \in [Conns -> Nat]
      /\ up \in [Conns -> Request \cup {NULL}] /\ down \in [Conns -> Seq(Response)]
      /\ closed \in [Conns -> BOOLEAN] /\ authed \in [Conns -> BOOLEAN]
      /\ sk \in [Conns -> {"none", "open", "freed"}]
      /\ fdOf \in [Conns -> Nat] /\ seqnum \in [Conns -> Nat]
  BY DEF Init
<1>4. /\ all_changes \in [Paths -> Seq(Entry)]
      /\ my_changes \in [Conns -> [Paths -> Entry \cup {NULL}]]
      /\ def_values \in [Paths -> Entry \cup {NULL}]
      /\ work_queue \in Seq(Item)
  BY DEF Init
<1>5. /\ dirty \in BOOLEAN /\ allow \in BOOLEAN /\ admin_down \in BOOLEAN
      /\ raced \in BOOLEAN /\ daemon_run \in BOOLEAN
  BY DEF Init
<1>6. /\ mpc \in MainPc /\ wpc \in WorkerPc /\ item \in Item
      /\ backlog \subseteq Conns /\ incoming \subseteq Conns
      /\ sel \subseteq Conns \cup {NAMED} /\ cur \in Conns \cup {NULL}
      /\ displaced \subseteq Paths /\ unwritten \subseteq Paths
      /\ num_client_sockets \in Nat /\ clock \in Nat
      /\ nsig \in Nat /\ nboot \in Nat /\ ncrash \in Nat
      /\ file \in [Paths -> Values] /\ orig \in [Paths -> Values]
  BY <1>1, <1>2 DEF Init, MainPc, WorkerPc
<1> QED BY <1>3, <1>4, <1>5, <1>6 DEF TypeOK

\* The steps of the clients.
LEMMA ClientTypes ==
    ASSUME TypeOK, ClientStep PROVE TypeOK'
<1> PICK c \in Conns :
       \/ ClientConnect(c)
       \/ \E r \in Sendable : ClientSend(c, r)
       \/ ClientReceive(c)
       \/ ClientEof(c)
       \/ ClientClose(c)
  BY DEF ClientStep
<1> USE DEF TypeOK, wireVars, clientVars, mainVars, sockVars, regVars, workVars,
            diskVars, fileVars, envVars, NoteRace
<1>1. CASE ClientConnect(c)
  BY <1>1 DEF ClientConnect
<1>2. CASE \E r \in Sendable : ClientSend(c, r)
  <2> PICK r \in Sendable : ClientSend(c, r)
    BY <1>2
  <2>1. r \in Request
    BY DEF Sendable
  <2> QED BY <2>1 DEF ClientSend
<1>3. CASE ClientReceive(c)
  BY <1>3 DEF ClientReceive
<1>4. CASE ClientEof(c)
  BY <1>4 DEF ClientEof
<1>5. CASE ClientClose(c)
  BY <1>5 DEF ClientClose
<1> QED BY <1>1, <1>2, <1>3, <1>4, <1>5

\* A response goes out with its types in order.
LEMMA SendTypes ==
    ASSUME TypeOK, NEW c \in Conns, NEW ret \in RetCode, send_response(c, ret)
    PROVE  down' \in [Conns -> Seq(Response)] /\ seqnum' \in [Conns -> Nat]
<1> DEFINE resp == [ret |-> ret, seq |-> seqnum[c], to |-> c]
<1>1. resp \in Response
  BY DEF Response, TypeOK
<1>2. \A d \in Conns : Append(down[d], resp) \in Seq(Response) /\ down[d] \in Seq(Response)
  BY <1>1 DEF TypeOK
<1>3. down' = [d \in Conns |-> IF d \in Peers(c) /\ cli[d] # "gone"
                               THEN Append(down[d], resp) ELSE down[d]]
  BY DEF send_response
<1>4. down' \in [Conns -> Seq(Response)]
  BY <1>2, <1>3
<1>5. seqnum' \in [Conns -> Nat]
  BY DEF send_response, TypeOK
<1> QED BY <1>4, <1>5

\* A write changes the file or notes that it failed.
LEMMA WriteTypes ==
    ASSUME TypeOK, NEW p \in Paths, NEW v \in Values, NEW ok \in BOOLEAN,
           write_attr_value(p, v, ok)
    PROVE  /\ file' \in [Paths -> Values]
           /\ displaced' \subseteq Paths /\ unwritten' \subseteq Paths
BY DEF write_attr_value, TypeOK

\* The lists keep their type under the daemon's two operations.
LEMMA ListTypes ==
    ASSUME NEW p \in Paths, NEW l \in Seq(Entry)
    PROVE  /\ \A o : set_remove(l, o) \in Seq(Entry)
           /\ \A e \in Entry : set_insert(p, l, e) \in Seq(Entry)
<1>1. \A o : set_remove(l, o) \in Seq(Entry)
  BY RemoveOwnerType DEF set_remove
<1>2. \A e \in Entry : set_insert(p, l, e) \in Seq(Entry)
  BY InsertSortedType, EntryIsRequest DEF set_insert
<1> QED BY <1>1, <1>2

\* After the end of the process everything is as at the start.
LEMMA EndTypes ==
    ASSUME TypeOK, NEW how \in MainPc, ProcessEnds(how),
           nsig' \in Nat, nboot' \in Nat, ncrash' \in Nat
    PROVE  TypeOK'
<1>1. item' \in Item
  BY StopItemType DEF ProcessEnds
<1>2. /\ up' \in [Conns -> Request \cup {NULL}]
      /\ closed' \in [Conns -> BOOLEAN] /\ authed' \in [Conns -> BOOLEAN]
      /\ sk' \in [Conns -> {"none", "open", "freed"}]
      /\ fdOf' \in [Conns -> Nat] /\ seqnum' \in [Conns -> Nat]
  BY DEF ProcessEnds, TypeOK
<1>3. /\ all_changes' \in [Paths -> Seq(Entry)]
      /\ my_changes' \in [Conns -> [Paths -> Entry \cup {NULL}]]
      /\ def_values' \in [Paths -> Entry \cup {NULL}]
      /\ work_queue' \in Seq(Item)
  BY DEF ProcessEnds
<1>4. daemon_run' \in BOOLEAN /\ raced' \in BOOLEAN
  BY DEF ProcessEnds, NoteRace
<1>5. /\ mpc' \in MainPc /\ wpc' \in WorkerPc
      /\ backlog' \subseteq Conns /\ incoming' \subseteq Conns
      /\ sel' \subseteq Conns \cup {NAMED} /\ cur' \in Conns \cup {NULL}
      /\ num_client_sockets' \in Nat /\ clock' \in Nat
  BY DEF ProcessEnds, WorkerPc
<1>6. UNCHANGED <<cli, reqs, down, dirty, allow, admin_down, file, displaced, unwritten, orig>>
  BY DEF ProcessEnds, clientVars, diskVars, fileVars
<1> QED BY <1>1, <1>2, <1>3, <1>4, <1>5, <1>6 DEF TypeOK

\* The steps of the main thread.
LEMMA MainTypes ==
    ASSUME TypeOK, Places, ClientsCounted, MainStep PROVE TypeOK'
<1> USE DEF wireVars, clientVars, mainVars, sockVars, regVars, workVars,
            diskVars, fileVars, envVars, NoteRace
<1>1. CASE MainBoot
  BY <1>1 DEF MainBoot, TypeOK, MainPc, WorkerPc
<1>2. CASE MainCheck
  BY <1>2 DEF MainCheck, TypeOK, MainPc
<1>3. CASE MainEnterSelect
  BY <1>3 DEF MainEnterSelect, TypeOK, MainPc
<1>4. CASE MainSelect
  <2>1. Ready \subseteq Conns \cup {NAMED}
    BY DEF Ready, TypeOK
  <2> QED BY <1>4, <2>1 DEF MainSelect, TypeOK, MainPc
<1>5. CASE MainScanned
  BY <1>5 DEF MainScanned, TypeOK, MainPc
<1>6. CASE MainAcceptFails
  BY <1>6 DEF MainAcceptFails, TypeOK
<1>7. CASE MainDumped
  <2>1. cur \in Conns
    BY <1>7 DEF MainDumped, Places, TypeOK
  <2>2. down' \in [Conns -> Seq(Response)] /\ seqnum' \in [Conns -> Nat]
    BY <1>7, <2>1, SendTypes DEF MainDumped, RetCode
  <2> QED BY <1>7, <2>2 DEF MainDumped, TypeOK, MainPc
<1>8. ASSUME NEW c \in Conns, MainRefuse(c) PROVE TypeOK'
  <2>1. PICK ret \in RetCode : down' = IF cli[c] = "gone" THEN down
                     ELSE [down EXCEPT ![c] =
                             Append(@, [ret |-> ret, seq |-> 0, to |-> c])]
    BY <1>8 DEF MainRefuse
  <2>2. [ret |-> ret, seq |-> 0, to |-> c] \in Response
    BY DEF Response
  <2>3. down' \in [Conns -> Seq(Response)]
    BY <2>1, <2>2 DEF TypeOK
  <2> QED BY <1>8, <2>3 DEF MainRefuse, TypeOK
<1>9. ASSUME NEW c \in Conns, MainAccept(c) PROVE TypeOK'
  <2>1. fdOf' \in [Conns -> Nat]
    <3>1. PICK f \in 1 .. Cardinality(Conns) : fdOf' = [fdOf EXCEPT ![c] = f]
      BY <1>9 DEF MainAccept, Full
    <3>2. f \in Nat
      BY FS_CardinalityType, PowerapidAssumption
    <3> QED BY <3>1, <3>2 DEF TypeOK
  <2> QED BY <1>9, <2>1 DEF MainAccept, Full, TypeOK
<1>10. ASSUME NEW c \in Conns, MainAuth(c) PROVE TypeOK'
  <2>1. down' \in [Conns -> Seq(Response)] /\ seqnum' \in [Conns -> Nat]
    BY <1>10, SendTypes DEF MainAuth, RetCode
  <2> QED BY <1>10, <2>1 DEF MainAuth, MainRead, TypeOK
<1>11. ASSUME NEW c \in Conns, MainSet(c) PROVE TypeOK'
  <2>1. up[c] \in Request
    BY <1>11 DEF MainSet, MainRead, TypeOK
  <2>2. [own |-> c, path |-> up[c].path, val |-> up[c].val, ts |-> 0] \in Item
    BY <2>1 DEF Request, Item
  <2>3. CASE authed[c]
    <3> DEFINE it == [own |-> c, path |-> up[c].path, val |-> up[c].val, ts |-> 0]
    <3>1. work_queue' = Append(work_queue, it) /\ UNCHANGED <<down, seqnum, mpc, cur, authed>>
      BY <1>11, <2>3 DEF MainSet
    <3> HIDE DEF it
    <3>2. work_queue' \in Seq(Item)
      BY <2>2, <3>1 DEF TypeOK, it
    <3> QED BY <1>11, <3>1, <3>2 DEF MainSet, MainRead, TypeOK
  <2>4. CASE ~ authed[c]
    <3>1. down' \in [Conns -> Seq(Response)] /\ seqnum' \in [Conns -> Nat]
      BY <1>11, <2>4, SendTypes DEF MainSet, RetCode
    <3> QED BY <1>11, <2>4, <3>1 DEF MainSet, MainRead, TypeOK
  <2> QED BY <2>3, <2>4
<1>12. ASSUME NEW c \in Conns, MainLogLevel(c) PROVE TypeOK'
  <2>1. down' \in [Conns -> Seq(Response)] /\ seqnum' \in [Conns -> Nat]
    BY <1>12, SendTypes DEF MainLogLevel, RetCode
  <2> QED BY <1>12, <2>1 DEF MainLogLevel, MainRead, TypeOK
<1>13. ASSUME NEW c \in Conns, MainDump(c) PROVE TypeOK'
  <2>1. down' \in [Conns -> Seq(Response)] /\ seqnum' \in [Conns -> Nat]
    BY <1>13, SendTypes DEF MainDump, RetCode, TypeOK
  <2> QED BY <1>13, <2>1 DEF MainDump, MainRead, TypeOK, MainPc
<1>14. ASSUME NEW c \in Conns, MainBadRequest(c) PROVE TypeOK'
  <2>1. down' \in [Conns -> Seq(Response)] /\ seqnum' \in [Conns -> Nat]
    BY <1>14, SendTypes DEF MainBadRequest, RetCode
  <2> QED BY <1>14, <2>1 DEF MainBadRequest, MainRead, TypeOK
<1>15. ASSUME NEW c \in Conns, MainLose(c) PROVE TypeOK'
  BY <1>15 DEF MainLose, TypeOK, MainPc
<1>16. ASSUME NEW c \in Conns, MainReset(c) PROVE TypeOK'
  BY <1>16 DEF MainReset, TypeOK, MainPc
<1>17. ASSUME NEW p \in Paths, MainRollback(p) PROVE TypeOK'
  <2>1. cur \in Conns
    BY <1>17 DEF MainRollback, Places, TypeOK
  <2>2. PICK l \in Updates(all_changes[p], set_remove(all_changes[p], cur)) :
          /\ l # <<>>
          /\ all_changes' = [all_changes EXCEPT ![p] = l]
          /\ IF attr_value_comp(Attr[p], my_changes[cur][p], l[1]) < 0
             THEN \E ok \in BOOLEAN : write_attr_value(p, l[1].val, ok)
             ELSE UNCHANGED fileVars
    BY <1>17 DEF MainRollback, RestoreHead
  <2>3. l \in Seq(Entry)
    BY <2>2, ListTypes DEF Updates, TypeOK
  <2>4. l[1].val \in Values
    <3>1. l[1] \in Entry
      BY <2>2, <2>3
    <3> QED BY <3>1 DEF Entry
  <2>5. /\ file' \in [Paths -> Values]
        /\ displaced' \subseteq Paths /\ unwritten' \subseteq Paths
    <3>1. CASE attr_value_comp(Attr[p], my_changes[cur][p], l[1]) < 0
      BY <2>2, <2>4, <3>1, WriteTypes
    <3>2. CASE ~ (attr_value_comp(Attr[p], my_changes[cur][p], l[1]) < 0)
      BY <2>2, <3>2 DEF TypeOK
    <3> QED BY <3>1, <3>2
  <2>6. all_changes' \in [Paths -> Seq(Entry)]
    BY <2>2, <2>3 DEF TypeOK
  <2>7. my_changes' \in [Conns -> [Paths -> Entry \cup {NULL}]]
    BY <1>17, <2>1 DEF MainRollback, TypeOK
  <2> QED BY <1>17, <2>5, <2>6, <2>7 DEF MainRollback, TypeOK
<1>18. CASE MainFree
  <2>1. cur \in incoming /\ IsFiniteSet(incoming)
    BY <1>18, PowerapidAssumption, FS_Subset DEF MainFree, DirtyAfterClose, Places, TypeOK
  <2>2. num_client_sockets - 1 \in Nat
    <3>1. Cardinality(incoming \ {cur}) = Cardinality(incoming) - 1
      BY <2>1, FS_RemoveElement
    <3>2. Cardinality(incoming \ {cur}) \in Nat
      BY <2>1, FS_RemoveElement, FS_CardinalityType
    <3> QED BY <3>1, <3>2 DEF ClientsCounted
  <2>3. dirty' \in BOOLEAN
    BY <1>18 DEF MainFree, DirtyAfterClose
  <2> QED BY <1>18, <2>1, <2>2, <2>3 DEF MainFree, DirtyAfterClose, TypeOK, MainPc
<1>19. CASE MainStop
  BY <1>19, StopItemType DEF MainStop, TypeOK, MainPc
<1>20. CASE MainJoin
  BY <1>20 DEF MainJoin, TypeOK, MainPc
<1>21. CASE MainFinalFree
  BY <1>21 DEF MainFinalFree, TypeOK, MainPc, Places
<1>22. CASE MainExit
  BY <1>22, EndTypes DEF MainExit, MainPc, TypeOK
<1> QED BY <1>1, <1>2, <1>3, <1>4, <1>5, <1>6, <1>7, <1>8, <1>9, <1>10, <1>11,
           <1>12, <1>13, <1>14, <1>15, <1>16, <1>17, <1>18, <1>19, <1>20, <1>21,
           <1>22 DEF MainStep

\* The clock never runs backwards here.
LEMMA TickType ==
    ASSUME TypeOK, NEW p \in Paths, NEW t \in Tick(p) PROVE t \in Nat
BY DEF Tick, TypeOK

\* The steps of the worker thread.
LEMMA WorkerTypes ==
    ASSUME TypeOK, Places, WorkerStep PROVE TypeOK'
<1> USE DEF wireVars, clientVars, mainVars, sockVars, regVars, workVars,
            diskVars, fileVars, envVars, NoteRace
<1> DEFINE p == item.path
           c == item.own
           old == all_changes[p]
<1>0. /\ item \in Item /\ p \in Paths /\ item.val \in Values
      /\ c \in Conns \cup {NULL} /\ item.ts \in Nat
      /\ WorkerInLists => c \in Conns
  BY DEF TypeOK, Item, Places
<1>1. CASE WorkerLoop
  BY <1>1 DEF WorkerLoop, TypeOK, WorkerPc
<1>2. CASE WorkerPop
  <2>1. Head(work_queue) \in Item /\ Tail(work_queue) \in Seq(Item)
    BY <1>2 DEF WorkerPop, TypeOK
  <2> QED BY <1>2, <2>1 DEF WorkerPop, TypeOK, WorkerPc
<1>3. CASE WorkerDefaultKept
  BY <1>3 DEF WorkerDefaultKept, TypeOK, WorkerPc
<1>4. CASE WorkerDefault
  <2>1. PICK t \in Tick(p) :
          LET d    == [own |-> NULL,
                       val |-> IF is_persistent(c) THEN item.val ELSE file[p],
                       ts  |-> IF Attr[p] = "GOV" THEN t ELSE 0]
              kept == IF def_values[p] = NULL THEN old ELSE set_remove(old, NULL)
          IN  /\ clock' = t
              /\ def_values' = [def_values EXCEPT ![p] = d]
              /\ \E l \in Updates(old, set_insert(p, kept, d)) :
                    all_changes' = [all_changes EXCEPT ![p] = l]
    BY <1>4 DEF WorkerDefault, read_attr_value
  <2> DEFINE d == [own |-> NULL,
                   val |-> IF is_persistent(c) THEN item.val ELSE file[p],
                   ts  |-> IF Attr[p] = "GOV" THEN t ELSE 0]
             kept == IF def_values[p] = NULL THEN old ELSE set_remove(old, NULL)
  <2>2. t \in Nat
    BY <1>0, TickType
  <2>3. d \in Entry
    BY <1>0, <2>2 DEF Entry, TypeOK
  <2>4. old \in Seq(Entry)
    BY <1>0 DEF TypeOK
  <2>5. kept \in Seq(Entry)
    BY <1>0, <2>4, ListTypes
  <2>6. /\ clock' = t
        /\ def_values' = [def_values EXCEPT ![p] = d]
        /\ \E l \in Updates(old, set_insert(p, kept, d)) :
              all_changes' = [all_changes EXCEPT ![p] = l]
    BY <2>1
  <2> HIDE DEF d, kept, old, p, c
  <2>7. \A l \in Updates(old, set_insert(p, kept, d)) : l \in Seq(Entry)
    BY <1>0, <2>3, <2>4, <2>5, ListTypes DEF Updates
  <2>8. all_changes' \in [Paths -> Seq(Entry)]
    BY <1>0, <2>6, <2>7 DEF TypeOK
  <2>9. def_values' \in [Paths -> Entry \cup {NULL}] /\ clock' \in Nat
    BY <2>2, <2>3, <2>6 DEF TypeOK
  <2>10. orig' \in [Paths -> Values] /\ displaced' \subseteq Paths /\ wpc' \in WorkerPc
    BY <1>0, <1>4 DEF WorkerDefault, TypeOK, WorkerPc, p, c, old
  <2>11. raced' \in BOOLEAN
    BY <1>4 DEF WorkerDefault
  <2> QED BY <1>4, <2>8, <2>9, <2>10, <2>11 DEF WorkerDefault, TypeOK
<1>5. CASE WorkerDefaultFails
  <2>1. c \in Conns
    BY <1>0, <1>5 DEF WorkerDefaultFails, WorkerInLists
  <2>2. down' \in [Conns -> Seq(Response)] /\ seqnum' \in [Conns -> Nat]
    BY <1>5, <2>1, SendTypes DEF WorkerDefaultFails, RetCode
  <2> QED BY <1>5, <2>2 DEF WorkerDefaultFails, TypeOK, WorkerPc
<1>6. CASE WorkerReplace
  <2>0. c \in Conns
    BY <1>0, <1>6 DEF WorkerReplace, WorkerInLists
  <2>1. PICK t \in Tick(p) :
          LET e    == [own |-> c, val |-> item.val,
                       ts  |-> IF Attr[p] = "GOV" THEN t ELSE 0]
              kept == IF my_changes[c][p] = NULL THEN old ELSE set_remove(old, c)
          IN  /\ clock' = t
              /\ item' = [item EXCEPT !.ts = e.ts]
              /\ my_changes' = [my_changes EXCEPT ![c][p] = e]
              /\ \E l \in Updates(old, set_insert(p, kept, e)) :
                    all_changes' = [all_changes EXCEPT ![p] = l]
    BY <1>6 DEF WorkerReplace
  <2> DEFINE e == [own |-> c, val |-> item.val,
                   ts  |-> IF Attr[p] = "GOV" THEN t ELSE 0]
             kept == IF my_changes[c][p] = NULL THEN old ELSE set_remove(old, c)
  <2>2. t \in Nat
    BY <1>0, TickType
  <2>3. e \in Entry /\ e.ts \in Nat
    BY <1>0, <2>0, <2>2 DEF Entry
  <2>4. old \in Seq(Entry)
    BY <1>0 DEF TypeOK
  <2>5. kept \in Seq(Entry)
    BY <1>0, <2>4, ListTypes
  <2>6. /\ clock' = t
        /\ item' = [item EXCEPT !.ts = e.ts]
        /\ my_changes' = [my_changes EXCEPT ![c][p] = e]
        /\ \E l \in Updates(old, set_insert(p, kept, e)) :
              all_changes' = [all_changes EXCEPT ![p] = l]
    BY <2>1
  <2> HIDE DEF e, kept, old, p, c
  <2>7. \A l \in Updates(old, set_insert(p, kept, e)) : l \in Seq(Entry)
    BY <1>0, <2>3, <2>4, <2>5, ListTypes DEF Updates
  <2>8. all_changes' \in [Paths -> Seq(Entry)]
    BY <1>0, <2>6, <2>7 DEF TypeOK
  <2>9. my_changes' \in [Conns -> [Paths -> Entry \cup {NULL}]] /\ clock' \in Nat
    BY <1>0, <2>0, <2>2, <2>3, <2>6 DEF TypeOK
  <2>10. item' \in Item
    BY <1>0, <2>3, <2>6 DEF Item
  <2>11. displaced' \subseteq Paths /\ wpc' \in WorkerPc /\ raced' \in BOOLEAN
    BY <1>0, <1>6 DEF WorkerReplace, TypeOK, WorkerPc, p
  <2> QED BY <1>6, <2>8, <2>9, <2>10, <2>11 DEF WorkerReplace, TypeOK
<1>7. CASE WorkerApply
  <2>0. c \in Conns
    BY <1>0, <1>7 DEF WorkerApply, WorkerInLists
  <2>1. CASE attr_value_comp(Attr[p], item, all_changes[p][1]) = 0
    <3>1. PICK ok \in BOOLEAN :
             /\ write_attr_value(p, item.val, ok)
             /\ send_response(c, IF ok THEN "SUCCESS" ELSE "FAILURE")
      BY <1>7, <2>1 DEF WorkerApply
    <3>2. down' \in [Conns -> Seq(Response)] /\ seqnum' \in [Conns -> Nat]
      BY <2>0, <3>1, SendTypes DEF RetCode
    <3>3. /\ file' \in [Paths -> Values]
          /\ displaced' \subseteq Paths /\ unwritten' \subseteq Paths
      BY <1>0, <3>1, WriteTypes
    <3> QED BY <1>7, <3>2, <3>3 DEF WorkerApply, TypeOK, WorkerPc
  <2>2. CASE attr_value_comp(Attr[p], item, all_changes[p][1]) # 0
    <3>1. send_response(c, "SUCCESS") /\ UNCHANGED fileVars
      BY <1>7, <2>2 DEF WorkerApply
    <3>2. down' \in [Conns -> Seq(Response)] /\ seqnum' \in [Conns -> Nat]
      BY <2>0, <3>1, SendTypes DEF RetCode
    <3> QED BY <1>7, <3>1, <3>2 DEF WorkerApply, TypeOK, WorkerPc
  <2> QED BY <2>1, <2>2
<1> QED BY <1>1, <1>2, <1>3, <1>4, <1>5, <1>6, <1>7 DEF WorkerStep

\* Signals, crashes and restarts.
LEMMA EnvTypes ==
    ASSUME TypeOK, EnvStep PROVE TypeOK'
<1> USE DEF wireVars, clientVars, mainVars, sockVars, regVars, workVars,
            diskVars, fileVars, envVars, NoteRace
<1>1. CASE Signal
  <2>0. nsig' \in Nat /\ nboot' \in Nat /\ ncrash' \in Nat
    BY <1>1 DEF Signal, TypeOK
  <2>1. CASE mpc = "paused" /\ ProcessEnds("exited")
    <3>1. "exited" \in MainPc
      BY DEF MainPc
    <3> QED BY <2>0, <2>1, <3>1, EndTypes
  <2>2. CASE /\ daemon_run' = FALSE
             /\ mpc' = (IF mpc = "select" THEN "check" ELSE mpc)
             /\ UNCHANGED <<clientVars, wireVars, sel, cur, sockVars, seqnum, regVars,
                            workVars, diskVars, fileVars, orig>>
             /\ NoteRace
    <3>1. mpc' \in MainPc
      BY <2>2 DEF TypeOK, MainPc
    <3> QED BY <2>0, <2>2, <3>1 DEF TypeOK
  <2> QED BY <1>1, <2>1, <2>2 DEF Signal
<1>2. CASE Crash
  <2>1. ProcessEnds("dead") /\ nsig' \in Nat /\ nboot' \in Nat /\ ncrash' \in Nat
    BY <1>2 DEF Crash, TypeOK
  <2>2. "dead" \in MainPc
    BY DEF MainPc
  <2> QED BY <2>1, <2>2, EndTypes
<1>3. CASE Segv
  <2>1. ProcessEnds("dead") /\ nsig' \in Nat /\ nboot' \in Nat /\ ncrash' \in Nat
    BY <1>3 DEF Segv, TypeOK
  <2>2. "dead" \in MainPc
    BY DEF MainPc
  <2> QED BY <2>1, <2>2, EndTypes
<1>4. CASE Restart
  BY <1>4 DEF Restart, TypeOK, MainPc
<1>5. CASE AllowRestart
  BY <1>5 DEF AllowRestart, TypeOK
<1> QED BY <1>1, <1>2, <1>3, <1>4, <1>5 DEF EnvStep

-----------------------------------------------------------------------------
(* Places and counts                                                       *)

LEMMA PlacesInit == Init => Places /\ ClientsCounted
<1> SUFFICES ASSUME Init PROVE Places /\ ClientsCounted
  OBVIOUS
<1>1. Cardinality({}) = 0
  BY FS_EmptySet
<1>2. MaxClientSockets \in Nat
  BY PowerapidAssumption
<1>3. Places
  BY DEF Init, Places, WorkerInLists, Alive
<1>4. ClientsCounted
  BY <1>1, <1>2 DEF Init, ClientsCounted, Alive
<1> QED BY <1>3, <1>4

LEMMA ClientPlaces ==
    ASSUME TypeOK, Places, ClientsCounted, ClientStep
    PROVE  Places' /\ ClientsCounted'
<1> PICK c \in Conns :
       \/ ClientConnect(c)
       \/ \E r \in Sendable : ClientSend(c, r)
       \/ ClientReceive(c)
       \/ ClientEof(c)
       \/ ClientClose(c)
  BY DEF ClientStep
<1>1. /\ UNCHANGED <<mpc, sel, cur, incoming, num_client_sockets, dirty, wpc, item>>
      /\ \A d \in Conns : cli[d] # "new" => cli'[d] # "new"
      /\ backlog' = backlog \/ (Alive /\ backlog' = backlog \cup {c} /\ cli[c] = "new"
                                      /\ cli'[c] = "idle")
  BY DEF ClientConnect, ClientSend, ClientReceive, ClientEof, ClientClose, wireVars,
         clientVars, mainVars, sockVars, workVars, diskVars, TypeOK
<1>2. Places'
  BY <1>1 DEF Places, WorkerInLists, Alive, TypeOK
<1>3. ClientsCounted'
  BY <1>1 DEF ClientsCounted, Alive
<1> QED BY <1>2, <1>3

LEMMA EndPlaces ==
    ASSUME TypeOK, NEW how \in {"exited", "dead"}, ProcessEnds(how)
    PROVE  Places' /\ ClientsCounted'
<1>1. Cardinality({}) = 0
  BY FS_EmptySet
<1>2. MaxClientSockets \in Nat
  BY PowerapidAssumption
<1>3. Places'
  BY DEF ProcessEnds, Places, WorkerInLists, Alive
<1>4. ClientsCounted'
  BY <1>1, <1>2 DEF ProcessEnds, ClientsCounted, Alive
<1> QED BY <1>3, <1>4

LEMMA WorkerPlaces ==
    ASSUME TypeOK, Places, ClientsCounted, WorkerStep
    PROVE  Places' /\ ClientsCounted'
<1>1. UNCHANGED <<mpc, sel, cur, incoming, num_client_sockets, dirty, backlog, cli>>
  BY DEF WorkerStep, WorkerLoop, WorkerPop, WorkerDefaultKept, WorkerDefault,
         WorkerDefaultFails, WorkerReplace, WorkerApply, wireVars, clientVars,
         mainVars, sockVars, diskVars
<1>2. WorkerInLists' => item'.own \in Conns
  <2>1. CASE WorkerPop
    <3>1. Head(work_queue) \in Item
      BY <2>1 DEF WorkerPop, TypeOK
    <3> QED BY <2>1, <3>1 DEF WorkerPop, WorkerInLists, Item
  <2>2. CASE WorkerReplace
    <3>1. item'.own = item.own /\ WorkerInLists
      BY <2>2 DEF WorkerReplace, WorkerInLists, TypeOK, Item
    <3> QED BY <3>1 DEF Places
  <2>3. CASE WorkerLoop \/ WorkerDefaultKept \/ WorkerDefault \/ WorkerDefaultFails
                \/ WorkerApply
    BY <2>3 DEF WorkerLoop, WorkerDefaultKept, WorkerDefault, WorkerDefaultFails,
                WorkerApply, WorkerInLists, Places
  <2> QED BY <2>1, <2>2, <2>3 DEF WorkerStep
<1>3. Places'
  BY <1>1, <1>2 DEF Places, Alive
<1>4. ClientsCounted'
  BY <1>1 DEF ClientsCounted, Alive
<1> QED BY <1>3, <1>4

LEMMA EnvPlaces ==
    ASSUME TypeOK, Places, ClientsCounted, EnvStep
    PROVE  Places' /\ ClientsCounted'
<1> USE DEF wireVars, clientVars, mainVars, sockVars, workVars, diskVars
<1>1. CASE \E how \in {"exited", "dead"} : ProcessEnds(how)
  BY <1>1, EndPlaces
<1>2. CASE /\ Alive
           /\ mpc' = (IF mpc = "select" THEN "check" ELSE mpc)
           /\ UNCHANGED <<clientVars, wireVars, sel, cur, sockVars, workVars, diskVars>>
  <2>1. Places'
    BY <1>2 DEF Places, Alive, WorkerInLists
  <2>2. ClientsCounted'
    BY <1>2 DEF ClientsCounted, Alive
  <2> QED BY <2>1, <2>2
<1>3. CASE Restart
  <2>1. Places'
    BY <1>3 DEF Restart, Places, Alive, WorkerInLists
  <2>2. ClientsCounted'
    BY <1>3 DEF Restart, ClientsCounted, Alive
  <2> QED BY <2>1, <2>2
<1>4. CASE AllowRestart
  <2>1. Places'
    BY <1>4 DEF AllowRestart, Places, Alive, WorkerInLists
  <2>2. ClientsCounted'
    BY <1>4 DEF AllowRestart, ClientsCounted, Alive
  <2> QED BY <2>1, <2>2
<1> QED BY <1>1, <1>2, <1>3, <1>4 DEF EnvStep, Signal, Crash, Segv

LEMMA MainPlaces ==
    ASSUME TypeOK, Places, ClientsCounted, MainStep
    PROVE  Places' /\ ClientsCounted'
<1> USE DEF wireVars, clientVars, mainVars, sockVars, workVars, diskVars
<1>1. CASE MainBoot
  <2>1. Places'
    BY <1>1 DEF MainBoot, Places, Alive, WorkerInLists
  <2>2. ClientsCounted'
    BY <1>1 DEF MainBoot, ClientsCounted, Alive, Places
  <2> QED BY <2>1, <2>2
\* Steps that leave the sockets alone.
<1>2. CASE MainCheck \/ MainEnterSelect \/ MainScanned \/ MainStop
  <2>1. UNCHANGED <<sel, cur, incoming, num_client_sockets, dirty, backlog, cli, wpc, item>>
    BY <1>2 DEF MainCheck, MainEnterSelect, MainScanned, MainStop
  <2>2. /\ mpc \in {"check", "presel", "scan", "stop"}
        /\ mpc' \in {"check", "presel", "select", "stop", "join"}
    BY <1>2 DEF MainCheck, MainEnterSelect, MainScanned, MainStop
  <2>3. Places'
    BY <2>1, <2>2 DEF Places, Alive, WorkerInLists
  <2>4. ClientsCounted'
    BY <2>1, <2>2 DEF ClientsCounted, Alive
  <2> QED BY <2>3, <2>4
<1>3. CASE MainSelect
  <2>1. Places'
    BY <1>3 DEF MainSelect, Places, Alive, WorkerInLists, Ready
  <2>2. ClientsCounted'
    BY <1>3 DEF MainSelect, ClientsCounted, Alive
  <2> QED BY <2>1, <2>2
\* Steps of the scan that keep the set of client sockets.
<1>4. CASE \/ MainAcceptFails \/ MainDumped
           \/ \E c \in Conns : \/ MainRefuse(c) \/ MainAuth(c) \/ MainSet(c)
                               \/ MainLogLevel(c) \/ MainDump(c) \/ MainBadRequest(c)
                               \/ MainLose(c)
  <2>1. /\ UNCHANGED <<incoming, num_client_sockets, dirty, cli, wpc, item>>
        /\ backlog' \subseteq backlog /\ sel' \subseteq sel
    BY <1>4 DEF MainAcceptFails, MainDumped, MainRefuse, MainAuth, MainSet,
                MainLogLevel, MainDump, MainBadRequest, MainLose, MainRead
  <2>2. /\ mpc \in {"scan", "dump"} /\ mpc' \in {"scan", "dump", "destruct"}
        /\ mpc' \in {"dump", "destruct"} =>
              mpc = "scan" /\ cur' \in sel /\ cur' \in Conns /\ cur' \notin sel'
    BY <1>4 DEF MainAcceptFails, MainDumped, MainRefuse, MainAuth, MainSet,
                MainLogLevel, MainDump, MainBadRequest, MainLose, MainRead
  <2>3. NAMED \notin Conns
    BY PowerapidAssumption
  <2>4. Places'
    BY <2>1, <2>2, <2>3 DEF Places, Alive, WorkerInLists
  <2>5. ClientsCounted'
    BY <2>1, <2>2 DEF ClientsCounted, Alive
  <2> QED BY <2>4, <2>5
<1>5. ASSUME NEW c \in Conns, MainAccept(c) PROVE Places' /\ ClientsCounted'
  <2>1. c \notin incoming /\ IsFiniteSet(incoming)
    BY <1>5, PowerapidAssumption, FS_Subset DEF MainAccept, Full, Places, TypeOK
  <2>2. Cardinality(incoming \cup {c}) = Cardinality(incoming) + 1
    BY <2>1, FS_AddElement
  <2>3. MaxClientSockets \in Nat
    BY PowerapidAssumption
  <2>4. Places'
    BY <1>5 DEF MainAccept, Full, Places, Alive, WorkerInLists
  <2>5. ClientsCounted'
    BY <1>5, <2>2, <2>3 DEF MainAccept, Full, ClientsCounted, Alive, TypeOK
  <2> QED BY <2>4, <2>5
<1>6. ASSUME NEW p \in Paths, MainRollback(p) PROVE Places' /\ ClientsCounted'
  <2>1. UNCHANGED <<sel, cur, mpc, incoming, num_client_sockets, dirty, backlog, cli, wpc, item>>
    BY <1>6 DEF MainRollback
  <2>2. Places'
    BY <2>1 DEF Places, Alive, WorkerInLists
  <2>3. ClientsCounted'
    BY <2>1 DEF ClientsCounted, Alive
  <2> QED BY <2>2, <2>3
<1>7. CASE MainFree
  <2>1. cur \in incoming /\ IsFiniteSet(incoming)
    BY <1>7, PowerapidAssumption, FS_Subset DEF MainFree, DirtyAfterClose, Places, TypeOK
  <2>2. Cardinality(incoming \ {cur}) = Cardinality(incoming) - 1
    BY <2>1, FS_RemoveElement
  <2>3. incoming \ {cur} = {} <=> Cardinality(incoming) = 1
    <3>1. IsFiniteSet(incoming \ {cur})
      BY <2>1, FS_RemoveElement
    <3>2. Cardinality(incoming \ {cur}) = 0 <=> incoming \ {cur} = {}
      BY <3>1, FS_EmptySet
    <3> QED BY <2>1, <2>2, <3>2, FS_CardinalityType
  <2>4. MaxClientSockets \in Nat
    BY PowerapidAssumption
  <2>5. Places'
    BY <1>7, <2>1 DEF MainFree, DirtyAfterClose, Places, Alive, WorkerInLists
  <2>6. num_client_sockets' = Cardinality(incoming') /\ num_client_sockets' <= MaxClientSockets
    BY <1>7, <2>2, <2>4 DEF MainFree, DirtyAfterClose, ClientsCounted, TypeOK
  <2>7. dirty' <=> incoming' # {}
    BY <1>7, <2>1, <2>3 DEF MainFree, DirtyAfterClose, ClientsCounted, Alive
  <2> QED BY <2>5, <2>6, <2>7 DEF ClientsCounted
<1>8. CASE MainJoin \/ MainFinalFree \/ \E c \in Conns : MainReset(c)
  <2>1. UNCHANGED <<incoming, num_client_sockets, dirty, backlog, cli, wpc, item>>
    BY <1>8 DEF MainJoin, MainFinalFree, MainReset
  <2>2. /\ mpc \in {"join", "reset", "final"} /\ mpc' \in {"reset", "final"}
        /\ mpc' = "final" => cur' \in Conns
        /\ sel' \subseteq sel \/ sel' = incoming
        /\ mpc = "join" => sel' = incoming
    BY <1>8 DEF MainJoin, MainFinalFree, MainReset
  <2>3. Places'
    BY <2>1, <2>2 DEF Places, Alive, WorkerInLists, TypeOK
  <2>4. ClientsCounted'
    BY <2>1, <2>2 DEF ClientsCounted, Alive
  <2> QED BY <2>3, <2>4
<1>9. CASE MainExit
  BY <1>9, EndPlaces DEF MainExit
<1> QED BY <1>1, <1>2, <1>3, <1>4, <1>5, <1>6, <1>7, <1>8, <1>9 DEF MainStep

-----------------------------------------------------------------------------
(* The theorems                                                            *)

LEMMA IInvStep == IInv /\ [Next]_vars => IInv'
<1> SUFFICES ASSUME IInv, [Next]_vars PROVE IInv'
  OBVIOUS
<1>1. CASE Next
  BY <1>1, MainTypes, WorkerTypes, ClientTypes, EnvTypes,
     MainPlaces, WorkerPlaces, ClientPlaces, EnvPlaces DEF Next, IInv
<1>2. CASE UNCHANGED vars
  BY <1>2 DEF IInv, TypeOK, Places, ClientsCounted, WorkerInLists, Alive, vars,
     wireVars, clientVars, mainVars, sockVars, regVars, workVars, diskVars,
     fileVars, envVars
<1> QED BY <1>1, <1>2

LEMMA IInvAlways == Spec => []IInv
<1>1. Init => IInv
  BY TypeInit, PlacesInit DEF IInv
<1> QED BY <1>1, IInvStep, PTL DEF Spec

\* Every variable of the daemon stays in its type, whatever the clients, the
\* signals, the crashes and the races do.
THEOREM TypeCorrect == Spec => []TypeOK
BY IInvAlways, PTL DEF IInv

\* For any number of clients the daemon counts them right, stays within
\* MAX_CLIENT_SOCKETS and has its state marked dirty exactly while there are
\* any (powerapid.c, main).
THEOREM ClientsAlwaysCounted == Spec => []ClientsCounted
BY IInvAlways, PTL DEF IInv

(***************************************************************************)
(* The change lists are in the order of priority, and the tables of the    *)
(* daemon agree: all_changes, def_values and the my_changes of the sockets. *)
(***************************************************************************)
\* No request in a list is stamped later than the clock shows.
StampsPast ==
    \A p \in Paths : \A i \in DOMAIN all_changes[p] : all_changes[p][i].ts <= clock

\* The lists whose order does not depend on a tie of the clock.
Ordered(p) == Attr[p] # "GOV" \/ ~ ClockTies

SortInv ==
    /\ StampsPast
    /\ Unraced => \A p \in Paths : Ordered(p) => SortedList(Attr[p], all_changes[p])

-----------------------------------------------------------------------------
\* Whatever happens, a race is recorded.
LEMMA RaceNoted == Next => NoteRace
BY DEF Next, MainStep, WorkerStep, ClientStep, EnvStep, ClientConnect, ClientSend,
       ClientReceive, ClientEof, ClientClose, MainBoot, MainCheck, MainEnterSelect,
       MainSelect, MainScanned, MainRefuse, MainAccept, MainAcceptFails, MainAuth,
       MainSet, MainLogLevel, MainDump, MainBadRequest, MainRead, MainDumped,
       MainLose, MainRollback, MainFree, MainStop, MainJoin, MainReset,
       MainFinalFree, MainExit, ProcessEnds, WorkerLoop, WorkerPop,
       WorkerDefaultKept, WorkerDefault, WorkerDefaultFails, WorkerReplace,
       WorkerApply, Signal, Crash, Segv, Restart, AllowRestart

\* So a step into a state without a race starts in one.
LEMMA UnracedBefore == Next /\ Unraced' => Unraced
<1> SUFFICES ASSUME Next, Unraced' PROVE Unraced
  OBVIOUS
<1>1. NoteRace
  BY RaceNoted
<1> QED BY <1>1 DEF NoteRace, Unraced

\* A request that enters the list of p with the stamp t of this moment keeps
\* the order; kept is the list it enters.
LEMMA EnterSorted ==
    ASSUME TypeOK, NEW p \in Paths, NEW t \in Tick(p), NEW kept \in Seq(Entry),
           NEW e \in Entry, e.ts = (IF Attr[p] = "GOV" THEN t ELSE 0),
           \A i \in DOMAIN kept : kept[i].ts <= clock
    PROVE  /\ \A i \in DOMAIN set_insert(p, kept, e) : set_insert(p, kept, e)[i].ts <= t
           /\ Ordered(p) /\ SortedList(Attr[p], kept)
                => SortedList(Attr[p], set_insert(p, kept, e))
<1> DEFINE m == set_insert(p, kept, e)
<1>0. Attr[p] \in AttrNames
  BY PowerapidAssumption
<1>1. t \in Nat /\ clock \in Nat /\ clock <= t /\ e.ts <= t
  BY DEF Tick, TypeOK
<1>2. \A i \in DOMAIN kept : kept[i].ts \in Nat
  <2> TAKE i \in DOMAIN kept
  <2>1. kept[i] \in Entry
    OBVIOUS
  <2> QED BY <2>1 DEF Entry
<1>3. \A i \in DOMAIN m : m[i] = e \/ \E j \in DOMAIN kept : m[i] = kept[j]
  BY InsertSortedElements, EntryIsRequest DEF set_insert
<1> HIDE DEF m
<1>4. \A i \in DOMAIN m : m[i].ts <= t
  <2> TAKE i \in DOMAIN m
  <2>1. CASE m[i] = e
    BY <1>1, <2>1
  <2>2. CASE \E j \in DOMAIN kept : m[i] = kept[j]
    <3> PICK j \in DOMAIN kept : m[i] = kept[j]
      BY <2>2
    <3>1. kept[j].ts <= clock /\ kept[j].ts \in Nat
      BY <1>2
    <3> QED BY <1>1, <3>1
  <2> QED BY <1>3, <2>1, <2>2
<1>5. ASSUME Ordered(p), SortedList(Attr[p], kept) PROVE Fits(Attr[p], kept, e)
  <2>1. CASE Attr[p] # "GOV"
    <3>1. Attr[p] \in LowerWins \cup HigherWins
      BY <1>0, <2>1 DEF AttrNames
    <3> QED BY <1>5, <3>1, LimitFits, EntryIsRequest
  <2>2. CASE Attr[p] = "GOV"
    <3>1. t = clock + 1 /\ e.ts = t
      BY <1>5, <2>2 DEF Ordered, Tick
    <3>2. \A i \in DOMAIN kept : kept[i].ts < e.ts
      BY <1>1, <1>2, <3>1
    <3>3. SortedList("GOV", kept)
      BY <1>5, <2>2
    <3>4. Fits("GOV", kept, e)
      BY <3>2, <3>3, GovernorFits, EntryIsRequest
    <3> QED BY <2>2, <3>4
  <2> QED BY <2>1, <2>2
<1>6. ASSUME Ordered(p), SortedList(Attr[p], kept) PROVE SortedList(Attr[p], m)
  BY <1>5, <1>6, InsertKeepsSorted, EntryIsRequest DEF set_insert, m
<1> QED BY <1>4, <1>6 DEF m

\* A list that loses a request: order and stamps stay.
LEMMA LeaveSorted ==
    ASSUME TypeOK, StampsPast, NEW p \in Paths, NEW o
    PROVE  /\ set_remove(all_changes[p], o) \in Seq(Entry)
           /\ \A i \in DOMAIN set_remove(all_changes[p], o) :
                 set_remove(all_changes[p], o)[i].ts <= clock
           /\ SortedList(Attr[p], all_changes[p])
                 => SortedList(Attr[p], set_remove(all_changes[p], o))
<1> DEFINE l == all_changes[p]
           m == set_remove(l, o)
<1>1. l \in Seq(Entry)
  BY DEF TypeOK
<1>2. m \in Seq(Entry)
  BY <1>1, ListTypes
<1>3. \A i \in DOMAIN m : \E j \in DOMAIN l : m[i] = l[j]
  BY <1>1, RemoveOwnerElements DEF set_remove
<1>4. SortedList(Attr[p], l) => SortedList(Attr[p], m)
  BY <1>1, RemoveKeepsSorted DEF set_remove
<1>5. \A j \in DOMAIN l : l[j].ts <= clock
  BY DEF StampsPast
<1> HIDE DEF l, m
<1>6. \A i \in DOMAIN m : m[i].ts <= clock
  BY <1>3, <1>5
<1> QED BY <1>2, <1>4, <1>6 DEF l, m

\* The list of one path changes to one the race allows, the clock moves on.
LEMMA ListStep ==
    ASSUME TypeOK, SortInv, Next, NEW p \in Paths, NEW t \in Nat, clock <= t, clock' = t,
           NEW new \in Seq(Entry), NEW l \in Updates(all_changes[p], new),
           all_changes' = [all_changes EXCEPT ![p] = l],
           \A i \in DOMAIN new : new[i].ts <= t,
           Ordered(p) /\ SortedList(Attr[p], all_changes[p]) => SortedList(Attr[p], new)
    PROVE  SortInv'
<1>1. \A q \in Paths : all_changes'[q] = IF q = p THEN l ELSE all_changes[q]
  BY DEF TypeOK
<1>2. l = all_changes[p] \/ l = new
  BY DEF Updates
<1>3. \A q \in Paths : \A i \in DOMAIN all_changes[q] :
          all_changes[q][i].ts <= clock /\ all_changes[q][i].ts \in Nat
  <2> TAKE q \in Paths
  <2> TAKE i \in DOMAIN all_changes[q]
  <2>1. all_changes[q][i] \in Entry
    BY DEF TypeOK
  <2> QED BY <2>1 DEF Entry, SortInv, StampsPast
<1>4. ASSUME NEW q \in Paths, NEW i \in DOMAIN all_changes'[q]
      PROVE  all_changes'[q][i].ts <= clock'
  <2>1. CASE all_changes'[q] = all_changes[q]
    <3>1. all_changes[q][i].ts <= clock /\ all_changes[q][i].ts \in Nat /\ clock \in Nat
      BY <1>3, <1>4, <2>1 DEF TypeOK
    <3> QED BY <2>1, <3>1
  <2>2. CASE q = p /\ l = new
    BY <1>1, <1>4, <2>2
  <2> QED BY <1>1, <1>2, <2>1, <2>2
<1>5. StampsPast'
  BY <1>4 DEF StampsPast
<1>6. ASSUME Unraced', NEW q \in Paths, Ordered(q)
      PROVE  SortedList(Attr[q], all_changes'[q])
  <2>1. Unraced
    BY <1>6, UnracedBefore
  <2>2. l = new
    BY <2>1 DEF Unraced, Updates
  <2>3. SortedList(Attr[q], all_changes[q])
    BY <1>6, <2>1 DEF SortInv
  <2> QED BY <1>1, <1>6, <2>2, <2>3
<1>7. Unraced' => \A q \in Paths : Ordered(q) => SortedList(Attr[q], all_changes'[q])
  BY <1>6
<1> QED BY <1>5, <1>7 DEF SortInv, Ordered

\* Empty lists are in order.
LEMMA EndSorted ==
    ASSUME NEW how, ProcessEnds(how) PROVE SortInv'
<1>1. \A p \in Paths : all_changes'[p] = <<>>
  BY DEF ProcessEnds
<1>2. \A a : SortedList(a, <<>>)
  BY DEF SortedList
<1> QED BY <1>1, <1>2 DEF SortInv, StampsPast

\* A step that leaves lists and clock alone.
LEMMA QuietSorted ==
    ASSUME SortInv, Next, UNCHANGED <<all_changes, clock>> PROVE SortInv'
BY UnracedBefore DEF SortInv, StampsPast, Ordered

LEMMA SortInit == Init => SortInv
<1> SUFFICES ASSUME Init PROVE SortInv
  OBVIOUS
<1>1. \A p \in Paths : all_changes[p] = <<>>
  BY DEF Init
<1>2. \A a : SortedList(a, <<>>)
  BY DEF SortedList
<1> QED BY <1>1, <1>2 DEF SortInv, StampsPast

LEMMA SortStep == IInv /\ SortInv /\ [Next]_vars => SortInv'
<1> SUFFICES ASSUME IInv, SortInv, [Next]_vars PROVE SortInv'
  OBVIOUS
<1> USE DEF IInv, regVars
<1>1. CASE UNCHANGED vars
  BY <1>1 DEF vars, SortInv, StampsPast, Ordered, Unraced, Racing, Overlap, Dangling,
     WorkerInLists, MainInLists, workVars, mainVars, sockVars
<1>2. CASE Next /\ ClientStep
  <2>1. UNCHANGED <<all_changes, clock>>
    BY <1>2 DEF ClientStep, ClientConnect, ClientSend, ClientReceive, ClientEof, ClientClose
  <2> QED BY <1>2, <2>1, QuietSorted
<1>3. CASE Next /\ EnvStep
  <2>1. CASE \E how : ProcessEnds(how)
    BY <2>1, EndSorted
  <2>2. CASE UNCHANGED <<all_changes, clock>>
    BY <1>3, <2>2, QuietSorted
  <2> QED BY <1>3, <2>1, <2>2 DEF EnvStep, Signal, Crash, Segv, Restart, AllowRestart
<1>4. CASE Next /\ MainStep
  <2>1. CASE MainExit
    BY <2>1, EndSorted DEF MainExit
  <2>2. ASSUME NEW p \in Paths, MainRollback(p) PROVE SortInv'
    <3> DEFINE new == set_remove(all_changes[p], cur)
    <3>1. PICK l \in Updates(all_changes[p], new) :
             all_changes' = [all_changes EXCEPT ![p] = l]
      BY <2>2 DEF MainRollback
    <3>2. clock' = clock /\ clock \in Nat /\ clock <= clock
      BY <2>2 DEF MainRollback, TypeOK
    <3>3. /\ new \in Seq(Entry)
          /\ \A i \in DOMAIN new : new[i].ts <= clock
          /\ SortedList(Attr[p], all_changes[p]) => SortedList(Attr[p], new)
      BY LeaveSorted DEF SortInv
    <3>4. TypeOK /\ Next
      BY <1>4 DEF IInv
    <3> HIDE DEF new
    <3> QED BY ONLY <1>4, <3>1, <3>2, <3>3, <3>4, <2>2, SortInv, ListStep
  <2>3. CASE ~ MainExit /\ ~ \E p \in Paths : MainRollback(p)
    <3>1. UNCHANGED <<all_changes, clock>>
      BY <1>4, <2>3 DEF MainStep, MainBoot, MainCheck, MainEnterSelect, MainSelect,
         MainScanned, MainRefuse, MainAccept, MainAcceptFails, MainAuth, MainSet,
         MainLogLevel, MainDump, MainBadRequest, MainRead, MainDumped, MainLose,
         MainFree, MainStop, MainJoin, MainReset, MainFinalFree
    <3> QED BY <1>4, <3>1, QuietSorted
  <2> QED BY <2>1, <2>2, <2>3
<1>5. CASE Next /\ WorkerDefault
  <2> DEFINE p == item.path
             old == all_changes[p]
             kept == IF def_values[p] = NULL THEN old ELSE set_remove(old, NULL)
             d(t) == [own |-> NULL,
                      val |-> IF is_persistent(item.own) THEN item.val ELSE file[p],
                      ts  |-> IF Attr[p] = "GOV" THEN t ELSE 0]
  <2>1. PICK t \in Tick(p) : /\ clock' = t
                             /\ \E l \in Updates(old, set_insert(p, kept, d(t))) :
                                   all_changes' = [all_changes EXCEPT ![p] = l]
    BY <1>5 DEF WorkerDefault, read_attr_value
  <2>2. p \in Paths /\ item.val \in Values /\ old \in Seq(Entry)
    BY DEF TypeOK, Item
  <2>3. t \in Nat /\ clock <= t
    BY <2>2 DEF Tick, TypeOK
  <2>4. d(t) \in Entry /\ d(t).ts = (IF Attr[p] = "GOV" THEN t ELSE 0)
    BY <2>2, <2>3 DEF Entry, TypeOK
  <2>5. /\ kept \in Seq(Entry)
        /\ \A i \in DOMAIN kept : kept[i].ts <= clock
        /\ SortedList(Attr[p], old) => SortedList(Attr[p], kept)
    BY <2>2, LeaveSorted DEF SortInv, StampsPast
  <2> HIDE DEF p, old, kept, d
  <2>6. /\ set_insert(p, kept, d(t)) \in Seq(Entry)
        /\ \A i \in DOMAIN set_insert(p, kept, d(t)) : set_insert(p, kept, d(t))[i].ts <= t
        /\ Ordered(p) /\ SortedList(Attr[p], kept)
               => SortedList(Attr[p], set_insert(p, kept, d(t)))
    BY <2>2, <2>4, <2>5, EnterSorted, ListTypes
  <2>7. Ordered(p) /\ SortedList(Attr[p], old)
           => SortedList(Attr[p], set_insert(p, kept, d(t)))
    BY <2>5, <2>6
  <2> QED BY <1>5, <2>1, <2>2, <2>3, <2>6, <2>7, ListStep DEF old
<1>6. CASE Next /\ WorkerReplace
  <2> DEFINE p == item.path
             c == item.own
             old == all_changes[p]
             kept == IF my_changes[c][p] = NULL THEN old ELSE set_remove(old, c)
             e(t) == [own |-> c, val |-> item.val,
                      ts  |-> IF Attr[p] = "GOV" THEN t ELSE 0]
  <2>1. PICK t \in Tick(p) : /\ clock' = t
                             /\ \E l \in Updates(old, set_insert(p, kept, e(t))) :
                                   all_changes' = [all_changes EXCEPT ![p] = l]
    BY <1>6 DEF WorkerReplace
  <2>2. /\ p \in Paths /\ item.val \in Values /\ old \in Seq(Entry)
        /\ c \in Conns \cup {NULL}
    BY DEF TypeOK, Item
  <2>3. t \in Nat /\ clock <= t
    BY <2>2 DEF Tick, TypeOK
  <2>4. e(t) \in Entry /\ e(t).ts = (IF Attr[p] = "GOV" THEN t ELSE 0)
    BY <2>2, <2>3 DEF Entry
  <2>5. /\ kept \in Seq(Entry)
        /\ \A i \in DOMAIN kept : kept[i].ts <= clock
        /\ SortedList(Attr[p], old) => SortedList(Attr[p], kept)
    BY <2>2, LeaveSorted DEF SortInv, StampsPast
  <2> HIDE DEF p, c, old, kept, e
  <2>6. /\ set_insert(p, kept, e(t)) \in Seq(Entry)
        /\ \A i \in DOMAIN set_insert(p, kept, e(t)) : set_insert(p, kept, e(t))[i].ts <= t
        /\ Ordered(p) /\ SortedList(Attr[p], kept)
               => SortedList(Attr[p], set_insert(p, kept, e(t)))
    BY <2>2, <2>4, <2>5, EnterSorted, ListTypes
  <2>7. Ordered(p) /\ SortedList(Attr[p], old)
           => SortedList(Attr[p], set_insert(p, kept, e(t)))
    BY <2>5, <2>6
  <2> QED BY <1>6, <2>1, <2>2, <2>3, <2>6, <2>7, ListStep DEF old
<1>7. CASE Next /\ WorkerStep /\ ~ WorkerDefault /\ ~ WorkerReplace
  <2>1. UNCHANGED <<all_changes, clock>>
    BY <1>7 DEF WorkerStep, WorkerLoop, WorkerPop, WorkerDefaultKept,
       WorkerDefaultFails, WorkerApply
  <2> QED BY <1>7, <2>1, QuietSorted
<1> QED BY <1>1, <1>2, <1>3, <1>4, <1>5, <1>6, <1>7 DEF Next

-----------------------------------------------------------------------------
LEMMA SortInvAlways == Spec => []SortInv
BY SortInit, SortStep, IInvAlways, PTL DEF Spec

\* With a clock that never shows the same time twice, all change lists are in
\* the order of priority at all times, as long as the threads do not race.
THEOREM ListsAlwaysSorted ==
    ASSUME ~ ClockTies
    PROVE  Spec => []Sorted
<1>1. SortInv => Sorted
  BY DEF SortInv, Sorted, Ordered
<1> QED BY <1>1, SortInvAlways, PTL

\* The lists of the attributes that are ordered by value (frequency, power and
\* C-state limits) are in order whatever the clock does.
THEOREM LimitsAlwaysSorted ==
    Spec => [](Unraced => \A p \in Paths :
                  Attr[p] # "GOV" => SortedList(Attr[p], all_changes[p]))
<1>1. SortInv => (Unraced => \A p \in Paths :
                     Attr[p] # "GOV" => SortedList(Attr[p], all_changes[p]))
  BY DEF SortInv, Ordered
<1> QED BY <1>1, SortInvAlways, PTL

-----------------------------------------------------------------------------
Owner == Conns \cup {NULL}

\* The list l holds the requests that f assigns to their owners, each once.
Represents(l, f) ==
    /\ \A i, j \in DOMAIN l : l[i].own = l[j].own => i = j
    /\ \A i \in DOMAIN l : f[l[i].own] = l[i]
    /\ \A o \in Owner : f[o] # NULL => Holds(l, o)

\* What the hash tables say is in force for path p.
InForce(p) == [o \in Owner |-> IF o = NULL THEN def_values[p] ELSE my_changes[o][p]]

\* The socket of every queued request has been constructed, and is there as
\* long as the main thread listens to it.
SocketsExist ==
    /\ \A i \in DOMAIN work_queue :
          work_queue[i].own \in Conns => sk[work_queue[i].own] # "none"
    /\ mpc \notin {"reset", "final"} => \A c \in incoming : sk[c] = "open"

\* While the threads have not met the tables agree, and a request in force has
\* an open socket and a default under it.
TableInv ==
    /\ SocketsExist
    /\ Unraced =>
         /\ \A p \in Paths : Represents(all_changes[p], InForce(p))
         /\ \A c \in Conns, p \in Paths :
               my_changes[c][p] # NULL => sk[c] = "open" /\ def_values[p] # NULL
         /\ WorkerInLists => sk[item.own] = "open"
         /\ wpc \in {"old", "top"} => def_values[item.path] # NULL

-----------------------------------------------------------------------------
(* List operations                                                         *)

LEMMA EntryFacts ==
    /\ NULL \notin Entry
    /\ \A e \in Entry : e.own \in Owner
BY NullIsNoRecord DEF Entry, Owner

\* Entering a request for an owner that has none.
LEMMA InsertRepresents ==
    ASSUME NEW a, NEW l \in Seq(Entry), NEW f \in [Owner -> Entry \cup {NULL}],
           Represents(l, f), NEW e \in Entry, f[e.own] = NULL
    PROVE  Represents(InsertSorted(a, l, e), [f EXCEPT ![e.own] = e])
<1> DEFINE pos == InsertPos(a, l, e)
           m == InsertSorted(a, l, e)
           g == [f EXCEPT ![e.own] = e]
<1>1. pos \in 1 .. Len(l) + 1
  BY InsertSortedType, EntryIsRequest
<1> HIDE DEF pos
<1>2. m = [i \in 1 .. Len(l) + 1 |-> IF i < pos THEN l[i]
                                    ELSE IF i = pos THEN e ELSE l[i - 1]]
  BY DEF InsertSorted, pos
<1>3. \A i \in DOMAIN l : l[i] \in Entry /\ l[i].own \in Owner /\ l[i].own # e.own
  BY EntryFacts DEF Represents
<1>4. e.own \in Owner
  BY EntryFacts
<1>5. \A o \in Owner : g[o] = IF o = e.own THEN e ELSE f[o]
  BY <1>4
<1> HIDE DEF m, g
<1>6. \A i, j \in DOMAIN m : m[i].own = m[j].own => i = j
  <2> SUFFICES ASSUME NEW i \in DOMAIN m, NEW j \in DOMAIN m, m[i].own = m[j].own
               PROVE  i = j
    OBVIOUS
  <2>1. i \in 1 .. Len(l) + 1 /\ j \in 1 .. Len(l) + 1 /\ Len(l) \in Nat
        /\ DOMAIN l = 1 .. Len(l)
    BY <1>2
  <2>2. \A k \in 1 .. Len(l) + 1 :
           /\ k < pos => m[k] = l[k] /\ k \in DOMAIN l
           /\ k = pos => m[k] = e
           /\ k > pos => m[k] = l[k - 1] /\ k - 1 \in DOMAIN l
    BY <1>1, <1>2, <2>1
  <2>3. CASE i = pos \/ j = pos
    BY <1>1, <1>3, <2>1, <2>2, <2>3
  <2>4. CASE i # pos /\ j # pos
    <3> DEFINE s(k) == IF k < pos THEN k ELSE k - 1
    <3>1. s(i) \in DOMAIN l /\ s(j) \in DOMAIN l /\ m[i] = l[s(i)] /\ m[j] = l[s(j)]
      BY <1>1, <2>1, <2>2, <2>4
    <3>2. s(i) = s(j)
      BY <3>1 DEF Represents
    <3> QED BY <1>1, <2>1, <2>4, <3>2
  <2> QED BY <2>3, <2>4
<1>7. \A i \in DOMAIN m : g[m[i].own] = m[i]
  <2> TAKE i \in DOMAIN m
  <2>1. m[i] = e \/ \E j \in DOMAIN l : m[i] = l[j]
    BY InsertSortedElements, EntryIsRequest DEF m
  <2> QED BY <2>1, <1>3, <1>4, <1>5 DEF Represents
<1>8. ASSUME NEW o \in Owner, g[o] # NULL PROVE Holds(m, o)
  <2>1. CASE o = e.own
    <3>1. pos \in DOMAIN m /\ m[pos] = e
      BY <1>1, <1>2
    <3> QED BY <2>1, <3>1 DEF Holds
  <2>2. CASE o # e.own
    <3>1. PICK i \in DOMAIN l : l[i].own = o
      BY <1>5, <1>8, <2>2 DEF Represents, Holds
    <3>2. i \in 1 .. Len(l) /\ Len(l) \in Nat
      OBVIOUS
    <3>3. CASE i < pos
      BY <1>1, <1>2, <3>1, <3>2, <3>3 DEF Holds
    <3>4. CASE ~ (i < pos)
      <4>1. i + 1 \in DOMAIN m /\ m[i + 1] = l[i]
        BY <1>1, <1>2, <3>2, <3>4
      <4> QED BY <3>1, <4>1 DEF Holds
    <3> QED BY <3>3, <3>4
  <2> QED BY <2>1, <2>2
<1> QED BY <1>6, <1>7, <1>8 DEF Represents, m, g

\* Taking out the request of an owner.
LEMMA RemoveRepresents ==
    ASSUME NEW l \in Seq(Entry), NEW f \in [Owner -> Entry \cup {NULL}],
           Represents(l, f), NEW o \in Owner
    PROVE  Represents(RemoveOwner(l, o), [f EXCEPT ![o] = NULL])
<1> DEFINE m == RemoveOwner(l, o)
           g == [f EXCEPT ![o] = NULL]
<1>1. \A x \in Owner : g[x] = IF x = o THEN NULL ELSE f[x]
  OBVIOUS
<1> HIDE DEF g
<1>2. CASE ~ Holds(l, o)
  <2>1. m = l
    BY <1>2 DEF RemoveOwner
  <2>2. \A i \in DOMAIN l : l[i].own \in Owner /\ l[i].own # o
    BY <1>2, EntryFacts DEF Holds
  <2> QED BY <1>1, <2>1, <2>2 DEF Represents, g
<1>3. CASE Holds(l, o)
  <2> DEFINE pos == CHOOSE i \in DOMAIN l : l[i].own = o
  <2>1. pos \in DOMAIN l /\ l[pos].own = o
    BY <1>3 DEF Holds
  <2>2. m = [i \in 1 .. Len(l) - 1 |-> IF i < pos THEN l[i] ELSE l[i + 1]]
    BY <1>3 DEF RemoveOwner
  <2> HIDE DEF pos, m
  <2>3. pos \in 1 .. Len(l) /\ Len(l) \in Nat /\ DOMAIN l = 1 .. Len(l)
    BY <2>1
  <2>4. \A i \in DOMAIN m :
           /\ i \in 1 .. Len(l) - 1
           /\ i < pos => m[i] = l[i] /\ i \in DOMAIN l
           /\ ~ (i < pos) => m[i] = l[i + 1] /\ i + 1 \in DOMAIN l
    BY <2>2, <2>3
  <2> DEFINE s(k) == IF k < pos THEN k ELSE k + 1
  <2>5. \A i \in DOMAIN m : s(i) \in DOMAIN l /\ m[i] = l[s(i)] /\ s(i) # pos
    BY <2>3, <2>4
  <2>6. \A i, j \in DOMAIN m : s(i) = s(j) => i = j
    BY <2>3, <2>4
  <2>7. \A i, j \in DOMAIN m : m[i].own = m[j].own => i = j
    BY <2>5, <2>6 DEF Represents
  <2>8. \A i \in DOMAIN m : g[m[i].own] = m[i]
    <3> TAKE i \in DOMAIN m
    <3>1. m[i].own \in Owner
      BY <2>5, EntryFacts
    <3>2. m[i].own # o
      BY <2>1, <2>5 DEF Represents
    <3> QED BY <1>1, <2>5, <3>1, <3>2 DEF Represents
  <2>9. ASSUME NEW x \in Owner, g[x] # NULL PROVE Holds(m, x)
    <3>1. x # o /\ f[x] # NULL
      BY <1>1, <2>9
    <3>2. PICK i \in DOMAIN l : l[i].own = x
      BY <3>1 DEF Represents, Holds
    <3>3. i # pos /\ i \in 1 .. Len(l)
      BY <2>1, <2>3, <3>1, <3>2
    <3>4. CASE i < pos
      <4>1. i \in DOMAIN m /\ m[i] = l[i]
        BY <2>2, <2>3, <3>3, <3>4
      <4> QED BY <3>2, <4>1 DEF Holds
    <3>5. CASE i > pos
      <4>1. i - 1 \in DOMAIN m /\ m[i - 1] = l[i]
        BY <2>2, <2>3, <3>3, <3>5
      <4> QED BY <3>2, <4>1 DEF Holds
    <3> QED BY <2>3, <3>3, <3>4, <3>5
  <2> QED BY <2>7, <2>8, <2>9 DEF Represents, m, g
<1> QED BY <1>2, <1>3

-----------------------------------------------------------------------------
(* Sockets of queued requests                                              *)

LEMMA EndSockets ==
    ASSUME NEW how, ProcessEnds(how) PROVE SocketsExist'
BY DEF ProcessEnds, SocketsExist

\* A step that neither queues a request nor touches the sockets.
LEMMA QuietSockets ==
    ASSUME SocketsExist, UNCHANGED <<work_queue, sk, incoming>>,
           mpc \in {"reset", "final"} => mpc' \in {"reset", "final"}
    PROVE  SocketsExist'
BY DEF SocketsExist

LEMMA SocketsStep == IInv /\ SocketsExist /\ Next => SocketsExist'
<1> SUFFICES ASSUME IInv, SocketsExist, Next PROVE SocketsExist'
  OBVIOUS
<1> USE DEF IInv, mainVars, sockVars, workVars
<1>1. CASE ClientStep
  <2>1. UNCHANGED <<work_queue, sk, incoming, mpc>>
    BY <1>1 DEF ClientStep, ClientConnect, ClientSend, ClientReceive, ClientEof, ClientClose
  <2> QED BY <2>1, QuietSockets
<1>2. CASE EnvStep
  <2>1. CASE \E how : ProcessEnds(how)
    BY <2>1, EndSockets
  <2>2. CASE ~ \E how : ProcessEnds(how)
    <3>1. /\ UNCHANGED <<work_queue, sk, incoming>>
          /\ mpc \in {"reset", "final"} => mpc' \in {"reset", "final"}
      BY <1>2, <2>2 DEF EnvStep, Signal, Crash, Segv, Restart, AllowRestart
    <3> QED BY <3>1, QuietSockets
  <2> QED BY <2>1, <2>2
<1>3. CASE WorkerStep
  <2>1. CASE WorkerPop
    <3>1. \A i \in DOMAIN Tail(work_queue) :
             i + 1 \in DOMAIN work_queue /\ Tail(work_queue)[i] = work_queue[i + 1]
      BY <2>1 DEF WorkerPop, TypeOK
    <3>2. work_queue' = Tail(work_queue) /\ UNCHANGED <<sk, incoming, mpc>>
      BY <2>1 DEF WorkerPop
    <3> QED BY <3>1, <3>2 DEF SocketsExist
  <2>2. CASE ~ WorkerPop
    <3>1. UNCHANGED <<work_queue, sk, incoming, mpc>>
      BY <1>3, <2>2 DEF WorkerStep, WorkerLoop, WorkerDefaultKept, WorkerDefault,
         WorkerDefaultFails, WorkerReplace, WorkerApply
    <3> QED BY <3>1, QuietSockets
  <2> QED BY <2>1, <2>2
<1>4. CASE MainStep
  <2>1. CASE MainExit
    BY <2>1, EndSockets DEF MainExit
  <2>2. ASSUME NEW e \in Item, work_queue' = Append(work_queue, e),
               UNCHANGED <<sk, incoming>>, mpc' \notin {"reset", "final"},
               mpc \notin {"reset", "final"}, e.own \in Conns => sk[e.own] # "none"
        PROVE  SocketsExist'
    <3>1. work_queue \in Seq(Item)
      BY DEF TypeOK
    <3>2. \A i \in DOMAIN work_queue' :
             work_queue'[i] = e \/ (i \in DOMAIN work_queue /\ work_queue'[i] = work_queue[i])
      BY <2>2, <3>1
    <3> QED BY <2>2, <3>2 DEF SocketsExist
  <2>3. ASSUME NEW c \in Conns, MainSet(c) PROVE SocketsExist'
    <3>1. c \in incoming /\ mpc = "scan" /\ mpc' = "scan"
      BY <2>3, PowerapidAssumption DEF MainSet, MainRead, Places
    <3>2. sk[c] = "open"
      BY <3>1 DEF SocketsExist
    <3>3. CASE authed[c]
      <4> DEFINE e == [own |-> c, path |-> up[c].path, val |-> up[c].val, ts |-> 0]
      <4>1. up[c] \in Request
        BY <2>3 DEF MainSet, MainRead, TypeOK
      <4>2. e \in Item
        BY <4>1 DEF Item, Request
      <4>3. work_queue' = Append(work_queue, e) /\ UNCHANGED <<sk, incoming>>
        BY <2>3, <3>3 DEF MainSet, MainRead
      <4>4. e.own = c
        OBVIOUS
      <4> HIDE DEF e
      <4> QED BY <2>2, <3>1, <3>2, <4>2, <4>3, <4>4
    <3>4. CASE ~ authed[c]
      <4>1. UNCHANGED <<work_queue, sk, incoming>>
        BY <2>3, <3>4 DEF MainSet, MainRead
      <4> QED BY <3>1, <4>1, QuietSockets
    <3> QED BY <3>3, <3>4
  <2>4. CASE MainStop
    <3>1. StopItem.own = NULL /\ NULL \notin Conns
      BY PowerapidAssumption DEF StopItem
    <3>2. /\ work_queue' = Append(work_queue, StopItem) /\ UNCHANGED <<sk, incoming>>
          /\ mpc = "stop" /\ mpc' = "join"
      BY <2>4 DEF MainStop
    <3> QED BY <2>2, <3>1, <3>2, StopItemType
  <2>5. ASSUME NEW c \in Conns, MainAccept(c) PROVE SocketsExist'
    BY <2>5 DEF MainAccept, SocketsExist, TypeOK
  <2>6. CASE MainFree
    BY <2>6 DEF MainFree, SocketsExist, TypeOK
  <2>7. CASE MainFinalFree
    BY <2>7 DEF MainFinalFree, SocketsExist, TypeOK
  <2>8. CASE \/ MainJoin \/ \E c \in Conns : MainReset(c)
    BY <2>8 DEF MainJoin, MainReset, SocketsExist
  <2>9. CASE /\ ~ MainExit /\ ~ MainStop /\ ~ MainFree /\ ~ MainFinalFree /\ ~ MainJoin
             /\ ~ \E c \in Conns : MainSet(c) \/ MainAccept(c) \/ MainReset(c)
    <3>1. /\ UNCHANGED <<work_queue, sk, incoming>>
          /\ mpc \in {"reset", "final"} => mpc' \in {"reset", "final"}
      BY <1>4, <2>9 DEF MainStep, MainBoot, MainCheck, MainEnterSelect, MainSelect,
         MainScanned, MainRefuse, MainAcceptFails, MainAuth,
         MainLogLevel, MainDump, MainBadRequest, MainRead, MainDumped, MainLose,
         MainRollback
    <3> QED BY <3>1, QuietSockets
  <2> QED BY <2>1, <2>3, <2>4, <2>5, <2>6, <2>7, <2>8, <2>9
<1> QED BY <1>1, <1>2, <1>3, <1>4 DEF Next

-----------------------------------------------------------------------------
(* The tables                                                              *)

\* All tables empty.
LEMMA EmptyTables ==
    ASSUME \A p \in Paths : all_changes[p] = <<>> /\ def_values[p] = NULL,
           \A c \in Conns, p \in Paths : my_changes[c][p] = NULL,
           SocketsExist, wpc = "none"
    PROVE  TableInv
<1>1. \A p \in Paths : Represents(all_changes[p], InForce(p))
  BY DEF Represents, InForce, Owner
<1> QED BY <1>1 DEF TableInv, WorkerInLists

LEMMA TableInit == Init => TableInv
<1> SUFFICES ASSUME Init PROVE TableInv
  OBVIOUS
<1>1. SocketsExist
  BY DEF Init, SocketsExist
<1> QED BY <1>1, EmptyTables DEF Init

LEMMA EndTable ==
    ASSUME NEW how, ProcessEnds(how) PROVE TableInv'
<1>1. /\ \A p \in Paths : all_changes'[p] = <<>> /\ def_values'[p] = NULL
      /\ \A c \in Conns, p \in Paths : my_changes'[c][p] = NULL
      /\ wpc' = "none"
  BY DEF ProcessEnds
<1>2. SocketsExist'
  BY EndSockets
<1>3. \A p \in Paths : Represents(all_changes'[p], InForce(p)')
  BY <1>1 DEF Represents, InForce, Owner
<1> QED BY <1>1, <1>2, <1>3 DEF TableInv, WorkerInLists, Represents, InForce

\* A step that leaves the tables alone keeps what they say of each other.
LEMMA SameTables ==
    ASSUME TableInv, Next, UNCHANGED <<all_changes, my_changes, def_values>>,
           SocketsExist',
           \A c \in Conns : \A p \in Paths :
              Unraced /\ my_changes[c][p] # NULL /\ sk[c] = "open" => sk'[c] = "open",
           Unraced' /\ WorkerInLists' => sk'[item'.own] = "open",
           Unraced' /\ wpc' \in {"old", "top"} => def_values[item'.path] # NULL
    PROVE  TableInv'
<1>1. Unraced' => Unraced
  BY UnracedBefore
<1>2. \A p \in Paths : InForce(p)' = InForce(p)
  BY DEF InForce
<1>3. Unraced' => \A p \in Paths : Represents(all_changes'[p], InForce(p)')
  BY <1>1, <1>2 DEF TableInv
<1>4. Unraced' => \A c \in Conns, p \in Paths :
         my_changes'[c][p] # NULL => sk'[c] = "open" /\ def_values'[p] # NULL
  BY <1>1 DEF TableInv
<1> QED BY <1>3, <1>4 DEF TableInv, Represents, InForce

\* In particular a step of another thread.
LEMMA QuietTables ==
    ASSUME TableInv, Next, UNCHANGED <<all_changes, my_changes, def_values, sk, item>>,
           SocketsExist',
           WorkerInLists' => WorkerInLists,
           wpc' \in {"old", "top"} => wpc \in {"old", "top"}
    PROVE  TableInv'
BY SameTables, UnracedBefore DEF TableInv

\* A change of one path and one owner.
LEMMA OneChange ==
    ASSUME IInv, TableInv, Next, SocketsExist',
           NEW p \in Paths, NEW o \in Owner, NEW v \in Entry \cup {NULL},
           UNCHANGED sk,
           def_values' = IF o = NULL THEN [def_values EXCEPT ![p] = v] ELSE def_values,
           my_changes' = IF o = NULL THEN my_changes ELSE [my_changes EXCEPT ![o][p] = v],
           Unraced => /\ Represents(all_changes'[p], [InForce(p) EXCEPT ![o] = v])
                      /\ \A q \in Paths : q # p => all_changes'[q] = all_changes[q]
                      /\ o = NULL => v # NULL
                      /\ o # NULL /\ v # NULL => sk[o] = "open" /\ def_values[p] # NULL,
           Unraced' /\ WorkerInLists' => sk[item'.own] = "open",
           Unraced' /\ wpc' \in {"old", "top"} => def_values'[item'.path] # NULL
    PROVE  TableInv'
<1>1. Unraced' => Unraced
  BY UnracedBefore
<1>2. /\ def_values \in [Paths -> Entry \cup {NULL}]
      /\ my_changes \in [Conns -> [Paths -> Entry \cup {NULL}]]
      /\ NULL \notin Conns
  BY PowerapidAssumption DEF IInv, TypeOK
<1>3. \A q \in Paths : InForce(q)' = IF q = p THEN [InForce(p) EXCEPT ![o] = v]
                                     ELSE InForce(q)
  BY <1>2 DEF InForce, Owner
<1>4. Unraced' => \A q \in Paths : Represents(all_changes'[q], InForce(q)')
  BY <1>1, <1>3 DEF TableInv
<1>5. Unraced' => \A c \in Conns, q \in Paths :
         my_changes'[c][q] # NULL => sk'[c] = "open" /\ def_values'[q] # NULL
  <2> SUFFICES ASSUME Unraced', NEW c \in Conns, NEW q \in Paths, my_changes'[c][q] # NULL
               PROVE  sk'[c] = "open" /\ def_values'[q] # NULL
    OBVIOUS
  <2>1. \A d \in Paths : def_values[d] # NULL => def_values'[d] # NULL
    BY <1>1, <1>2
  <2>2. CASE c = o /\ q = p
    BY <1>1, <1>2, <2>1, <2>2 DEF Owner
  <2>3. CASE ~ (c = o /\ q = p)
    <3>1. my_changes[c][q] # NULL
      BY <1>2, <2>3 DEF Owner
    <3> QED BY <1>1, <2>1, <3>1 DEF TableInv
  <2> QED BY <2>2, <2>3
<1> QED BY <1>4, <1>5 DEF TableInv, Represents, InForce

LEMMA InForceType ==
    ASSUME TypeOK, NEW p \in Paths
    PROVE  /\ InForce(p) \in [Owner -> Entry \cup {NULL}]
           /\ InForce(p)[NULL] = def_values[p]
           /\ \A c \in Conns : InForce(p)[c] = my_changes[c][p]
           /\ all_changes[p] \in Seq(Entry)
BY PowerapidAssumption DEF InForce, Owner, TypeOK

\* A request e takes the place of the one its owner had, if any.
LEMMA ReplaceRepresents ==
    ASSUME TypeOK, NEW p \in Paths, Represents(all_changes[p], InForce(p)),
           NEW e \in Entry, NEW kept,
           kept = IF InForce(p)[e.own] = NULL THEN all_changes[p]
                  ELSE set_remove(all_changes[p], e.own)
    PROVE  Represents(set_insert(p, kept, e), [InForce(p) EXCEPT ![e.own] = e])
<1> DEFINE f == InForce(p)
           g == [f EXCEPT ![e.own] = NULL]
<1>1. f \in [Owner -> Entry \cup {NULL}] /\ all_changes[p] \in Seq(Entry) /\ e.own \in Owner
  BY InForceType, EntryFacts
<1> HIDE DEF f
<1>2. kept \in Seq(Entry)
  BY <1>1, ListTypes DEF f
<1>3. CASE f[e.own] = NULL
  <2>1. Represents(kept, f)
    BY <1>3 DEF f
  <2> QED BY <1>1, <1>2, <1>3, <2>1, InsertRepresents DEF set_insert, f
<1>4. CASE f[e.own] # NULL
  <2>1. Represents(kept, g)
    BY <1>1, <1>4, RemoveRepresents DEF set_remove, f
  <2>2. g \in [Owner -> Entry \cup {NULL}] /\ g[e.own] = NULL
    BY <1>1
  <2>3. [g EXCEPT ![e.own] = e] = [f EXCEPT ![e.own] = e]
    BY <1>1
  <2> HIDE DEF g
  <2>4. Represents(set_insert(p, kept, e), [g EXCEPT ![e.own] = e])
    BY <1>2, <2>1, <2>2, InsertRepresents DEF set_insert
  <2> QED BY <2>3, <2>4 DEF f
<1> QED BY <1>3, <1>4

LEMMA DefaultTable ==
    ASSUME IInv, TableInv, Next, SocketsExist', WorkerDefault PROVE TableInv'
<1> DEFINE p == item.path
           old == all_changes[p]
           kept == IF def_values[p] = NULL THEN old ELSE set_remove(old, NULL)
           d(t) == [own |-> NULL,
                    val |-> IF is_persistent(item.own) THEN item.val ELSE file[p],
                    ts  |-> IF Attr[p] = "GOV" THEN t ELSE 0]
<1>0. TypeOK /\ p \in Paths
  BY DEF IInv, TypeOK, Item
<1>1. PICK t \in Tick(p) : /\ def_values' = [def_values EXCEPT ![p] = d(t)]
                           /\ \E l \in Updates(old, set_insert(p, kept, d(t))) :
                                 all_changes' = [all_changes EXCEPT ![p] = l]
  BY DEF WorkerDefault, read_attr_value
<1> DEFINE e == d(t)
<1>2. e \in Entry /\ e.own = NULL
  <2>1. t \in Nat
    BY <1>0, TickType
  <2>2. item.val \in Values /\ file[p] \in Values
    BY <1>0 DEF TypeOK, Item
  <2> QED BY <2>1, <2>2 DEF Entry
<1>3. /\ def_values' = [def_values EXCEPT ![p] = e]
      /\ \E l \in Updates(old, set_insert(p, kept, e)) :
            all_changes' = [all_changes EXCEPT ![p] = l]
  BY <1>1
<1> HIDE DEF e, d
<1>4. Unraced => all_changes' = [all_changes EXCEPT ![p] = set_insert(p, kept, e)]
  BY <1>3 DEF Updates, Unraced
<1>5. Unraced => Represents(set_insert(p, kept, e), [InForce(p) EXCEPT ![NULL] = e])
  <2> HAVE Unraced
  <2>1. Represents(old, InForce(p))
    BY <1>0 DEF TableInv
  <2>2. InForce(p)[NULL] = def_values[p]
    BY <1>0, InForceType
  <2>3. kept = IF InForce(p)[e.own] = NULL THEN old ELSE set_remove(old, e.own)
    BY <1>2, <2>2
  <2> QED BY <1>0, <1>2, <2>1, <2>3, ReplaceRepresents
<1>6. Unraced => /\ Represents(all_changes'[p], [InForce(p) EXCEPT ![NULL] = e])
                 /\ \A q \in Paths : q # p => all_changes'[q] = all_changes[q]
  BY <1>0, <1>4, <1>5 DEF TypeOK
<1>7. /\ UNCHANGED <<sk, my_changes, item>> /\ WorkerInLists
      /\ def_values'[p] = e
  BY <1>0, <1>3 DEF WorkerDefault, sockVars, WorkerInLists, TypeOK
<1>8. Unraced' => sk[item'.own] = "open"
  BY <1>7, UnracedBefore DEF TableInv
<1>9. e # NULL /\ def_values'[item'.path] # NULL
  BY <1>2, <1>7, EntryFacts
<1>10. NULL \in Owner
  BY DEF Owner
<1> HIDE DEF p
<1> QED BY <1>0, <1>2, <1>3, <1>6, <1>7, <1>8, <1>9, <1>10, OneChange

LEMMA ReplaceTable ==
    ASSUME IInv, TableInv, Next, SocketsExist', WorkerReplace PROVE TableInv'
<1> DEFINE p == item.path
           c == item.own
           old == all_changes[p]
           kept == IF my_changes[c][p] = NULL THEN old ELSE set_remove(old, c)
           x(t) == [own |-> c, val |-> item.val, ts |-> IF Attr[p] = "GOV" THEN t ELSE 0]
<1>0. TypeOK /\ p \in Paths /\ c \in Conns /\ item \in Item
  BY DEF IInv, Places, WorkerInLists, WorkerReplace, TypeOK, Item
<1>1. PICK t \in Tick(p) : /\ item' = [item EXCEPT !.ts = x(t).ts]
                           /\ my_changes' = [my_changes EXCEPT ![c][p] = x(t)]
                           /\ \E l \in Updates(old, set_insert(p, kept, x(t))) :
                                 all_changes' = [all_changes EXCEPT ![p] = l]
  BY DEF WorkerReplace
<1> DEFINE e == x(t)
<1>2. e \in Entry /\ e.own = c
  <2>1. t \in Nat
    BY <1>0, TickType
  <2>2. item.val \in Values
    BY <1>0 DEF Item
  <2> QED BY <1>0, <2>1, <2>2 DEF Entry
<1>3. /\ my_changes' = [my_changes EXCEPT ![c][p] = e]
      /\ \E l \in Updates(old, set_insert(p, kept, e)) :
            all_changes' = [all_changes EXCEPT ![p] = l]
      /\ item'.own = c /\ item'.path = p
  BY <1>0, <1>1 DEF Item
<1> HIDE DEF e, x
<1>4. Unraced => all_changes' = [all_changes EXCEPT ![p] = set_insert(p, kept, e)]
  BY <1>3 DEF Updates, Unraced
<1>5. Unraced => Represents(set_insert(p, kept, e), [InForce(p) EXCEPT ![c] = e])
  <2> HAVE Unraced
  <2>1. Represents(old, InForce(p))
    BY <1>0 DEF TableInv
  <2>2. InForce(p)[c] = my_changes[c][p]
    BY <1>0, InForceType
  <2>3. kept = IF InForce(p)[e.own] = NULL THEN old ELSE set_remove(old, e.own)
    BY <1>2, <2>2
  <2> QED BY <1>0, <1>2, <2>1, <2>3, ReplaceRepresents
<1>6. Unraced => /\ Represents(all_changes'[p], [InForce(p) EXCEPT ![c] = e])
                 /\ \A q \in Paths : q # p => all_changes'[q] = all_changes[q]
  BY <1>0, <1>4, <1>5 DEF TypeOK
<1>7. UNCHANGED <<sk, def_values>> /\ WorkerInLists /\ wpc = "old"
  BY DEF WorkerReplace, sockVars, WorkerInLists
<1>8. Unraced => sk[c] = "open" /\ def_values[p] # NULL
  BY <1>7 DEF TableInv
<1>9. c \in Owner /\ c # NULL
  BY <1>0, PowerapidAssumption DEF Owner
<1>10. Unraced' => Unraced
  BY UnracedBefore
<1>11. /\ Unraced' /\ WorkerInLists' => sk[item'.own] = "open"
       /\ Unraced' /\ wpc' \in {"old", "top"} => def_values'[item'.path] # NULL
  BY <1>3, <1>7, <1>8, <1>10
<1>12. /\ def_values' = IF c = NULL THEN [def_values EXCEPT ![p] = e] ELSE def_values
       /\ my_changes' = IF c = NULL THEN my_changes ELSE [my_changes EXCEPT ![c][p] = e]
  BY <1>3, <1>7, <1>9
<1> HIDE DEF p, c
<1> QED BY <1>0, <1>2, <1>6, <1>7, <1>8, <1>9, <1>11, <1>12, OneChange

LEMMA RollbackTable ==
    ASSUME IInv, TableInv, Next, SocketsExist', NEW p \in Paths, MainRollback(p)
    PROVE  TableInv'
<1>0. TypeOK /\ cur \in Conns /\ cur \in Owner /\ cur # NULL
  BY PowerapidAssumption DEF IInv, Places, MainRollback, Owner, TypeOK
<1>1. Unraced => all_changes' = [all_changes EXCEPT ![p] = set_remove(all_changes[p], cur)]
  BY DEF MainRollback, Updates, Unraced
<1>2. Unraced => Represents(set_remove(all_changes[p], cur), [InForce(p) EXCEPT ![cur] = NULL])
  BY <1>0, InForceType, RemoveRepresents DEF TableInv, set_remove
<1>3. Unraced => /\ Represents(all_changes'[p], [InForce(p) EXCEPT ![cur] = NULL])
                 /\ \A q \in Paths : q # p => all_changes'[q] = all_changes[q]
  BY <1>0, <1>1, <1>2 DEF TypeOK
<1>4. /\ UNCHANGED <<sk, def_values, item, wpc>>
      /\ my_changes' = [my_changes EXCEPT ![cur][p] = NULL]
  BY DEF MainRollback, sockVars, workVars
<1>5. /\ Unraced' /\ WorkerInLists' => sk[item'.own] = "open"
      /\ Unraced' /\ wpc' \in {"old", "top"} => def_values'[item'.path] # NULL
  BY <1>4, UnracedBefore DEF TableInv, WorkerInLists
<1> QED BY <1>0, <1>3, <1>4, <1>5, OneChange

LEMMA TableStep == IInv /\ TableInv /\ [Next]_vars => TableInv'
<1> SUFFICES ASSUME IInv, TableInv, [Next]_vars PROVE TableInv'
  OBVIOUS
<1>1. CASE UNCHANGED vars
  BY <1>1 DEF vars, TableInv, SocketsExist, Represents, InForce, Unraced, Racing, Overlap,
     Dangling, WorkerInLists, MainInLists, workVars, mainVars, sockVars, regVars
<1>2. CASE Next
  <2>0. SocketsExist' /\ (Unraced' => Unraced) /\ Next
    BY <1>2, SocketsStep, UnracedBefore DEF TableInv
  <2> USE DEF mainVars, sockVars, workVars, regVars
  <2>1. CASE ClientStep
    <3>1. UNCHANGED <<all_changes, my_changes, def_values, sk, item, wpc>>
      BY <2>1 DEF ClientStep, ClientConnect, ClientSend, ClientReceive, ClientEof, ClientClose
    <3> QED BY <2>0, <3>1, QuietTables DEF WorkerInLists
  <2>2. CASE EnvStep
    <3>1. CASE \E how : ProcessEnds(how)
      BY <3>1, EndTable
    <3>2. CASE ~ \E how : ProcessEnds(how)
      <4>1. UNCHANGED <<all_changes, my_changes, def_values, sk, item, wpc>>
        BY <2>2, <3>2 DEF EnvStep, Signal, Crash, Segv, Restart, AllowRestart
      <4> QED BY <2>0, <4>1, QuietTables DEF WorkerInLists
    <3> QED BY <3>1, <3>2
  <2>3. CASE WorkerStep
    <3>1. CASE WorkerDefault
      BY <2>0, <3>1, DefaultTable
    <3>2. CASE WorkerReplace
      BY <2>0, <3>2, ReplaceTable
    <3>3. CASE WorkerLoop \/ WorkerDefaultFails \/ WorkerApply
      <4>1. /\ UNCHANGED <<all_changes, my_changes, def_values, sk, item>>
            /\ wpc' \in {"loop", "pop", "done"}
        BY <3>3 DEF WorkerLoop, WorkerDefaultFails, WorkerApply
      <4> QED BY <2>0, <4>1, QuietTables DEF WorkerInLists
    <3>4. CASE WorkerDefaultKept
      <4>1. /\ UNCHANGED <<all_changes, my_changes, def_values, sk, item>>
            /\ WorkerInLists /\ def_values[item.path] # NULL
        BY <3>4 DEF WorkerDefaultKept, WorkerInLists
      <4> QED BY <2>0, <4>1, SameTables DEF TableInv
    <3>5. CASE WorkerPop
      <4>1. /\ UNCHANGED <<all_changes, my_changes, def_values, sk>>
            /\ item' = work_queue[1] /\ 1 \in DOMAIN work_queue
            /\ work_queue[1] \in Item
            /\ wpc' = IF item'.own = NULL THEN "loop" ELSE "def"
        BY <3>5 DEF WorkerPop, IInv, TypeOK
      <4>2. WorkerInLists' => item'.own \in Conns
        BY <4>1 DEF WorkerInLists, Item
      <4>3. Unraced' /\ WorkerInLists' => sk'[item'.own] # "freed"
        BY DEF Unraced, Racing, Dangling
      <4>4. Unraced' /\ WorkerInLists' => sk'[item'.own] = "open"
        BY <4>1, <4>2, <4>3 DEF TableInv, SocketsExist, IInv, TypeOK
      <4>5. wpc' \notin {"old", "top"}
        BY <4>1
      <4> QED BY <2>0, <4>1, <4>4, <4>5, SameTables
    <3> QED BY <2>3, <3>1, <3>2, <3>3, <3>4, <3>5 DEF WorkerStep
  <2>4. CASE MainStep
    <3>1. CASE MainExit
      BY <3>1, EndTable DEF MainExit
    <3>2. CASE \E p \in Paths : MainRollback(p)
      BY <2>0, <3>2, RollbackTable
    <3>3. ASSUME NEW c \in Conns, MainAccept(c) PROVE TableInv'
      <4>1. /\ UNCHANGED <<all_changes, my_changes, def_values, item, wpc>>
            /\ sk' = [sk EXCEPT ![c] = "open"] /\ sk \in [Conns -> {"none", "open", "freed"}]
        BY <3>3 DEF MainAccept, IInv, TypeOK
      <4>2. WorkerInLists' => item.own \in Conns /\ WorkerInLists
        BY <4>1 DEF IInv, Places, WorkerInLists
      <4>3. Unraced' /\ WorkerInLists' => sk'[item'.own] = "open"
        BY <2>0, <4>1, <4>2 DEF TableInv
      <4>4. Unraced' /\ wpc' \in {"old", "top"} => def_values[item'.path] # NULL
        BY <2>0, <4>1 DEF TableInv
      <4> QED BY <2>0, <4>1, <4>3, <4>4, SameTables
    <3>4. CASE MainFree \/ MainFinalFree
      <4>1. /\ UNCHANGED <<all_changes, my_changes, def_values, item, wpc>>
            /\ sk' = [sk EXCEPT ![cur] = "freed"] /\ sk \in [Conns -> {"none", "open", "freed"}]
            /\ \A p \in Paths : my_changes[cur][p] = NULL
            /\ cur \in Conns
        BY <3>4 DEF MainFree, MainFinalFree, IInv, Places, TypeOK
      <4>2. WorkerInLists' => item.own \in Conns /\ WorkerInLists
        BY <4>1 DEF IInv, Places, WorkerInLists
      <4>3. Unraced' /\ WorkerInLists' => sk'[item'.own] # "freed"
        BY DEF Unraced, Racing, Dangling
      <4>4. Unraced' /\ WorkerInLists' => sk'[item'.own] = "open"
        BY <2>0, <4>1, <4>2, <4>3 DEF TableInv
      <4>5. Unraced' /\ wpc' \in {"old", "top"} => def_values[item'.path] # NULL
        BY <2>0, <4>1 DEF TableInv
      <4> QED BY <2>0, <4>1, <4>4, <4>5, SameTables
    <3>5. CASE /\ ~ MainExit /\ ~ MainFree /\ ~ MainFinalFree
               /\ ~ \E p \in Paths : MainRollback(p)
               /\ ~ \E c \in Conns : MainAccept(c)
      <4>1. /\ UNCHANGED <<all_changes, my_changes, def_values, sk, item>>
            /\ wpc' = wpc \/ wpc' = "loop"
        BY <2>4, <3>5 DEF MainStep, MainBoot, MainCheck, MainEnterSelect, MainSelect,
           MainScanned, MainRefuse, MainAcceptFails, MainAuth, MainSet,
           MainLogLevel, MainDump, MainBadRequest, MainRead, MainDumped, MainLose,
           MainStop, MainJoin, MainReset
      <4> QED BY <2>0, <4>1, QuietTables DEF WorkerInLists
    <3> QED BY <3>1, <3>2, <3>3, <3>4, <3>5
  <2> QED BY <1>2, <2>1, <2>2, <2>3, <2>4 DEF Next
<1> QED BY <1>1, <1>2

LEMMA TableInvAlways == Spec => []TableInv
BY IInvAlways, TableInit, TableStep, PTL DEF Spec

\* What the invariant says of a list and its tables.
LEMMA TablesAgree == TypeOK /\ TableInv => Registered
<1> SUFFICES ASSUME TypeOK, TableInv, Unraced, NEW p \in Paths
             PROVE LET l == all_changes[p]
                   IN  /\ \A i, j \in DOMAIN l : l[i].own = l[j].own => i = j
                       /\ Holds(l, NULL) <=> def_values[p] # NULL
                       /\ Holds(l, NULL) => EntryOf(l, NULL) = def_values[p]
                       /\ \A c \in Conns :
                             /\ Holds(l, c) <=> my_changes[c][p] # NULL
                             /\ Holds(l, c) => /\ EntryOf(l, c) = my_changes[c][p]
                                               /\ sk[c] = "open"
                                               /\ Holds(l, NULL)
  BY DEF Registered
<1> DEFINE l == all_changes[p]
           f == InForce(p)
<1>1. Represents(l, f) /\ l \in Seq(Entry)
  BY InForceType DEF TableInv
<1>2. f[NULL] = def_values[p] /\ \A c \in Conns : f[c] = my_changes[c][p]
  BY InForceType
<1> HIDE DEF l, f
<1>3. ASSUME NEW o \in Owner
      PROVE  (Holds(l, o) <=> f[o] # NULL) /\ (Holds(l, o) => EntryOf(l, o) = f[o])
  <2>1. ASSUME Holds(l, o) PROVE EntryOf(l, o) = f[o] /\ f[o] # NULL
    <3> DEFINE i == CHOOSE i \in DOMAIN l : l[i].own = o
    <3>1. i \in DOMAIN l /\ l[i].own = o
      BY <2>1 DEF Holds
    <3>2. EntryOf(l, o) = l[i]
      BY DEF EntryOf
    <3> HIDE DEF i
    <3>3. l[i] \in Entry /\ f[o] = l[i]
      BY <1>1, <3>1 DEF Represents
    <3> QED BY <3>2, <3>3, EntryFacts
  <2>2. f[o] # NULL => Holds(l, o)
    BY <1>1 DEF Represents
  <2> QED BY <2>1, <2>2
<1>4. NULL \in Owner /\ \A c \in Conns : c \in Owner
  BY DEF Owner
<1>5. \A c \in Conns : my_changes[c][p] # NULL => sk[c] = "open" /\ def_values[p] # NULL
  BY DEF TableInv
<1>6. \A i, j \in DOMAIN l : l[i].own = l[j].own => i = j
  BY <1>1 DEF Represents
<1> QED BY <1>2, <1>3, <1>4, <1>5, <1>6 DEF l

\* Registered, for any number of clients, paths and requests: until the threads
\* race, every change list holds exactly the default of its path and the
\* requests in the my_changes of open sockets, so the head that set_rollback
\* and worker_process_item read is there.
THEOREM TablesAlwaysAgree == Spec => []Registered
BY TypeCorrect, TableInvAlways, TablesAgree, PTL

(***************************************************************************)
(* What the sysfs files hold: a value that is never weaker than a limit in *)
(* force, the value at the head of the change list, and the persistent value *)
(* when no client is left.                                                 *)
(***************************************************************************)
\* The value v is at least as strong as w under the rule of attribute a.
Stronger(a, v, w) == IF a \in LowerWins THEN v <= w ELSE w <= v

\* The worker has entered the request it handles for p, or a default with its
\* value, and has not yet written it.
InHand(p, v) == wpc \in {"old", "top"} /\ item.path = p /\ v = item.val

\* The file covers every request in force but those in hand.
Covered(p) ==
    \A i \in DOMAIN all_changes[p] :
        \/ Stronger(Attr[p], file[p], all_changes[p][i].val)
        \/ InHand(p, all_changes[p][i].val)

LimitInv ==
    /\ ~ Alive => wpc = "none" /\ \A p \in Paths : all_changes[p] = <<>>
    /\ Unraced => \A p \in Paths \ unwritten : Attr[p] # "GOV" => Covered(p)

-----------------------------------------------------------------------------
(* The order of the values                                                 *)

LEMMA StrongerOrder ==
    ASSUME NEW a, NEW u \in Int, NEW v \in Int, NEW w \in Int
    PROVE  /\ Stronger(a, v, v)
           /\ Stronger(a, u, v) /\ Stronger(a, v, w) => Stronger(a, u, w)
BY DEF Stronger

LEMMA CompStronger ==
    ASSUME NEW a \in AttrNames, a # "GOV", NEW s1, NEW s2, s1.val \in Int, s2.val \in Int
    PROVE  /\ attr_value_comp(a, s1, s2) <= 0 <=> Stronger(a, s1.val, s2.val)
           /\ attr_value_comp(a, s1, s2) = 0 <=> s1.val = s2.val
<1>1. a \in LowerWins \/ (a \notin LowerWins /\ a \in HigherWins)
  BY DEF AttrNames
<1>2. CASE a \in LowerWins
  BY <1>2 DEF attr_value_comp, value_compare, Stronger
<1>3. CASE a \notin LowerWins /\ a \in HigherWins
  BY <1>3 DEF attr_value_comp, value_compare, Stronger
<1> QED BY <1>1, <1>2, <1>3

LEMMA ValuesAreInts == \A e \in Entry : e.val \in Int /\ e.val \in Values
BY PowerapidAssumption DEF Entry

\* The head of a sorted list of limits covers the list.
LEMMA HeadCovers ==
    ASSUME NEW a \in AttrNames, a # "GOV", NEW l \in Seq(Entry), SortedList(a, l), l # <<>>
    PROVE  \A i \in DOMAIN l : Stronger(a, l[1].val, l[i].val)
<1> TAKE i \in DOMAIN l
<1>1. 1 \in DOMAIN l /\ i \in Nat /\ 1 <= i
  OBVIOUS
<1>2. l[1] \in Entry /\ l[i] \in Entry
  BY <1>1
<1>3. l[1].val \in Int /\ l[i].val \in Int
  BY <1>2, ValuesAreInts
<1>4. CASE i = 1
  BY <1>3, <1>4, StrongerOrder
<1>5. CASE i # 1
  <2>1. attr_value_comp(a, l[1], l[i]) <= 0
    BY <1>1, <1>5 DEF SortedList
  <2> QED BY <1>3, <2>1, CompStronger
<1> QED BY <1>4, <1>5

-----------------------------------------------------------------------------
(* Preservation                                                            *)

LEMMA LimitInit == Init => LimitInv
BY DEF Init, LimitInv, Covered

LEMMA EndLimit ==
    ASSUME NEW how, ProcessEnds(how) PROVE LimitInv'
BY DEF ProcessEnds, LimitInv, Covered

\* A step that changes neither lists nor files, and no request in hand.
LEMMA QuietLimit ==
    ASSUME LimitInv, Next, UNCHANGED <<all_changes, file, unwritten>>,
           \A p \in Paths, v \in Values : InHand(p, v) => InHand(p, v)',
           TypeOK,
           ~ Alive' => wpc' = "none" /\ \A p \in Paths : all_changes[p] = <<>>
    PROVE  LimitInv'
<1>1. Unraced' => Unraced
  BY UnracedBefore
<1>2. \A p \in Paths : \A i \in DOMAIN all_changes[p] : all_changes[p][i].val \in Values
  <2> TAKE p \in Paths
  <2> TAKE i \in DOMAIN all_changes[p]
  <2>1. all_changes[p][i] \in Entry
    BY DEF TypeOK
  <2> QED BY <2>1, ValuesAreInts
<1>3. \A p \in Paths : Covered(p) => Covered(p)'
  BY <1>2 DEF Covered
<1> QED BY <1>1, <1>3 DEF LimitInv

\* A step of the worker on the list of p: what it enters is covered or in hand.
LEMMA EnterLimit ==
    ASSUME LimitInv, Next, Alive', UNCHANGED <<file, unwritten>>,
           NEW p \in Paths, item.path = p,
           Unraced => \A q \in Paths : q # p => all_changes'[q] = all_changes[q],
           Unraced => \A i \in DOMAIN all_changes'[p] :
              \/ \E j \in DOMAIN all_changes[p] : all_changes'[p][i] = all_changes[p][j]
              \/ Stronger(Attr[p], file[p], all_changes'[p][i].val)
              \/ wpc' \in {"old", "top"} /\ all_changes'[p][i].val = item.val,
           wpc \in {"old", "top"} => wpc' \in {"old", "top"},
           item'.path = p, item'.val = item.val
    PROVE  LimitInv'
<1>1. Unraced' => Unraced
  BY UnracedBefore
<1>2. ASSUME Unraced', NEW q \in Paths \ unwritten', Attr[q] # "GOV" PROVE Covered(q)'
  <2>1. Covered(q)
    BY <1>1, <1>2 DEF LimitInv
  <2>2. CASE q # p
    BY <1>1, <1>2, <2>1, <2>2 DEF Covered, InHand
  <2>3. CASE q = p
    <3>1. \A i \in DOMAIN all_changes[p] :
             \/ Stronger(Attr[p], file[p], all_changes[p][i].val)
             \/ wpc \in {"old", "top"} /\ all_changes[p][i].val = item.val
      BY <2>1, <2>3 DEF Covered, InHand
    <3>2. \A i \in DOMAIN all_changes'[p] :
             \/ Stronger(Attr[p], file[p], all_changes'[p][i].val)
             \/ wpc' \in {"old", "top"} /\ all_changes'[p][i].val = item.val
      BY <1>1, <1>2, <3>1
    <3>3. \A i \in DOMAIN all_changes'[q] :
             \/ Stronger(Attr[q], file'[q], all_changes'[q][i].val)
             \/ /\ wpc' \in {"old", "top"} /\ item'.path = q
                /\ all_changes'[q][i].val = item'.val
      BY <2>3, <3>2
    <3> QED BY <3>3 DEF Covered, InHand, Stronger
  <2> QED BY <2>2, <2>3
<1> QED BY <1>2 DEF LimitInv

\* set_insert into the list, or into the list without the owner's old request,
\* brings in nothing but the new request.
LEMMA EnteredFrom ==
    ASSUME TypeOK, NEW p \in Paths, NEW e \in Entry, NEW o, NEW kept,
           kept = all_changes[p] \/ kept = set_remove(all_changes[p], o)
    PROVE  \A i \in DOMAIN set_insert(p, kept, e) :
              \/ set_insert(p, kept, e)[i] = e
              \/ \E j \in DOMAIN all_changes[p] :
                    set_insert(p, kept, e)[i] = all_changes[p][j]
<1>1. all_changes[p] \in Seq(Entry) /\ kept \in Seq(Entry)
  BY ListTypes DEF TypeOK
<1>2. \A i \in DOMAIN set_insert(p, kept, e) :
         set_insert(p, kept, e)[i] = e
         \/ \E j \in DOMAIN kept : set_insert(p, kept, e)[i] = kept[j]
  BY <1>1, InsertSortedElements, EntryIsRequest DEF set_insert
<1>3. \A i \in DOMAIN kept : \E j \in DOMAIN all_changes[p] : kept[i] = all_changes[p][j]
  BY <1>1, RemoveOwnerElements DEF set_remove
<1> QED BY <1>2, <1>3

LEMMA DefaultLimit ==
    ASSUME IInv, LimitInv, Next, WorkerDefault PROVE LimitInv'
<1> DEFINE p == item.path
           old == all_changes[p]
           kept == IF def_values[p] = NULL THEN old ELSE set_remove(old, NULL)
           d(t) == [own |-> NULL,
                    val |-> IF is_persistent(item.own) THEN item.val ELSE file[p],
                    ts  |-> IF Attr[p] = "GOV" THEN t ELSE 0]
<1>0. TypeOK /\ p \in Paths
  BY DEF IInv, TypeOK, Item
<1>1. PICK t \in Tick(p) : \E l \in Updates(old, set_insert(p, kept, d(t))) :
                              all_changes' = [all_changes EXCEPT ![p] = l]
  BY DEF WorkerDefault, read_attr_value
<1> DEFINE e == d(t)
<1>2. e \in Entry /\ (e.val = item.val \/ e.val = file[p]) /\ file[p] \in Int
  <2>1. t \in Nat
    BY <1>0, TickType
  <2>2. item.val \in Values /\ file[p] \in Values
    BY <1>0 DEF TypeOK, Item
  <2>3. file[p] \in Int
    BY <2>2, PowerapidAssumption
  <2> QED BY <2>1, <2>2, <2>3 DEF Entry
<1>3. \E l \in Updates(old, set_insert(p, kept, e)) :
         all_changes' = [all_changes EXCEPT ![p] = l]
  BY <1>1
<1> HIDE DEF e, d
<1>4. Unraced => /\ all_changes'[p] = set_insert(p, kept, e)
                 /\ \A q \in Paths : q # p => all_changes'[q] = all_changes[q]
  BY <1>0, <1>3 DEF Updates, Unraced, TypeOK
<1>5. /\ UNCHANGED <<file, unwritten, item, mpc>> /\ wpc = "def" /\ wpc' = "old"
  BY DEF WorkerDefault, mainVars
<1>6. Alive'
  BY <1>5 DEF LimitInv, Alive
<1>7. \A i \in DOMAIN set_insert(p, kept, e) :
         \/ set_insert(p, kept, e)[i] = e
         \/ \E j \in DOMAIN old : set_insert(p, kept, e)[i] = old[j]
  <2>1. kept = old \/ kept = set_remove(old, NULL)
    OBVIOUS
  <2> HIDE DEF kept
  <2> QED BY <1>0, <1>2, <2>1, EnteredFrom
<1>8. Stronger(Attr[p], file[p], file[p])
  BY <1>2, StrongerOrder
<1> HIDE DEF kept
<1>9. Unraced => \A i \in DOMAIN all_changes'[p] :
          \/ \E j \in DOMAIN all_changes[p] : all_changes'[p][i] = all_changes[p][j]
          \/ Stronger(Attr[p], file[p], all_changes'[p][i].val)
          \/ wpc' \in {"old", "top"} /\ all_changes'[p][i].val = item.val
  <2> SUFFICES ASSUME Unraced, NEW i \in DOMAIN all_changes'[p]
               PROVE  \/ \E j \in DOMAIN all_changes[p] :
                             all_changes'[p][i] = all_changes[p][j]
                      \/ Stronger(Attr[p], file[p], all_changes'[p][i].val)
                      \/ wpc' \in {"old", "top"} /\ all_changes'[p][i].val = item.val
    OBVIOUS
  <2>1. \/ all_changes'[p][i] = e
        \/ \E j \in DOMAIN old : all_changes'[p][i] = old[j]
    BY <1>4, <1>7
  <2>2. CASE all_changes'[p][i] = e
    BY <1>2, <1>5, <1>8, <2>2
  <2> QED BY <2>1, <2>2
<1>10. item'.path = p /\ item'.val = item.val
  BY <1>5
<1> QED BY <1>0, <1>4, <1>5, <1>6, <1>9, <1>10, EnterLimit

LEMMA ReplaceLimit ==
    ASSUME IInv, LimitInv, Next, WorkerReplace PROVE LimitInv'
<1> DEFINE p == item.path
           c == item.own
           old == all_changes[p]
           kept == IF my_changes[c][p] = NULL THEN old ELSE set_remove(old, c)
           x(t) == [own |-> c, val |-> item.val, ts |-> IF Attr[p] = "GOV" THEN t ELSE 0]
<1>0. TypeOK /\ p \in Paths /\ c \in Conns /\ item \in Item
  BY DEF IInv, Places, WorkerInLists, WorkerReplace, TypeOK, Item
<1>1. PICK t \in Tick(p) : /\ item' = [item EXCEPT !.ts = x(t).ts]
                           /\ \E l \in Updates(old, set_insert(p, kept, x(t))) :
                                 all_changes' = [all_changes EXCEPT ![p] = l]
  BY DEF WorkerReplace
<1> DEFINE e == x(t)
<1>2. e \in Entry /\ e.val = item.val
  <2>1. t \in Nat
    BY <1>0, TickType
  <2>2. item.val \in Values
    BY <1>0 DEF Item
  <2> QED BY <1>0, <2>1, <2>2 DEF Entry
<1>3. /\ \E l \in Updates(old, set_insert(p, kept, e)) :
            all_changes' = [all_changes EXCEPT ![p] = l]
      /\ item'.path = p /\ item'.val = item.val
  BY <1>0, <1>1 DEF Item
<1> HIDE DEF e, x
<1>4. Unraced => /\ all_changes'[p] = set_insert(p, kept, e)
                 /\ \A q \in Paths : q # p => all_changes'[q] = all_changes[q]
  BY <1>0, <1>3 DEF Updates, Unraced, TypeOK
<1>5. /\ UNCHANGED <<file, unwritten, mpc>> /\ wpc = "old" /\ wpc' = "top"
  BY DEF WorkerReplace, mainVars
<1>6. Alive'
  BY <1>5 DEF LimitInv, Alive
<1>7. \A i \in DOMAIN set_insert(p, kept, e) :
         \/ set_insert(p, kept, e)[i] = e
         \/ \E j \in DOMAIN old : set_insert(p, kept, e)[i] = old[j]
  <2>1. kept = old \/ kept = set_remove(old, c)
    OBVIOUS
  <2> HIDE DEF kept, c, p
  <2> QED BY <1>0, <1>2, <2>1, EnteredFrom
<1> HIDE DEF kept
<1>8. Unraced => \A i \in DOMAIN all_changes'[p] :
          \/ \E j \in DOMAIN all_changes[p] : all_changes'[p][i] = all_changes[p][j]
          \/ wpc' \in {"old", "top"} /\ all_changes'[p][i].val = item.val
  <2> SUFFICES ASSUME Unraced, NEW i \in DOMAIN all_changes'[p]
               PROVE  \/ \E j \in DOMAIN all_changes[p] :
                             all_changes'[p][i] = all_changes[p][j]
                      \/ wpc' \in {"old", "top"} /\ all_changes'[p][i].val = item.val
    OBVIOUS
  <2>1. \/ all_changes'[p][i] = e
        \/ \E j \in DOMAIN old : all_changes'[p][i] = old[j]
    BY <1>4, <1>7
  <2>2. CASE all_changes'[p][i] = e
    BY <1>2, <1>5, <2>2
  <2> QED BY <2>1, <2>2
<1> QED BY <1>0, <1>3, <1>4, <1>5, <1>6, <1>8, EnterLimit

\* A step on one path: what it does to the list and the file of p decides.
LEMMA PathLimit ==
    ASSUME LimitInv, Next, Alive', NEW p \in Paths,
           Unraced => \A q \in Paths : q # p => /\ all_changes'[q] = all_changes[q]
                                                /\ file'[q] = file[q]
                                                /\ q \in unwritten' <=> q \in unwritten
                                                /\ wpc \in {"old", "top"} /\ item.path = q
                                                   => UNCHANGED <<wpc, item>>,
           Unraced /\ p \notin unwritten' /\ Attr[p] # "GOV" => Covered(p)'
    PROVE  LimitInv'
<1>1. Unraced' => Unraced
  BY UnracedBefore
<1>2. ASSUME Unraced', NEW q \in Paths \ unwritten', Attr[q] # "GOV" PROVE Covered(q)'
  <2>1. CASE q = p
    BY <1>1, <1>2, <2>1
  <2>2. CASE q # p
    <3>1. Covered(q)
      BY <1>1, <1>2, <2>2 DEF LimitInv
    <3> QED BY <1>1, <1>2, <2>2, <3>1 DEF Covered, InHand
  <2> QED BY <2>1, <2>2
<1> QED BY <1>2 DEF LimitInv

LEMMA RollbackLimit ==
    ASSUME IInv, SortInv, LimitInv, Next, NEW p \in Paths, MainRollback(p)
    PROVE  LimitInv'
<1> DEFINE old == all_changes[p]
           l == set_remove(old, cur)
<1>0. TypeOK /\ old \in Seq(Entry) /\ Attr[p] \in AttrNames /\ file \in [Paths -> Values]
  BY PowerapidAssumption DEF IInv, TypeOK
<1>1. Unraced => /\ l # <<>>
                 /\ all_changes' = [all_changes EXCEPT ![p] = l]
                 /\ RestoreHead(p, my_changes[cur][p], l)
  BY DEF MainRollback, Updates, Unraced
<1>2. l \in Seq(Entry) /\ \A i \in DOMAIN l : \E j \in DOMAIN old : l[i] = old[j]
  BY <1>0, ListTypes, RemoveOwnerElements DEF set_remove
<1>3. Unraced /\ Attr[p] # "GOV" => SortedList(Attr[p], l)
  BY <1>0, LeaveSorted DEF SortInv, Ordered
<1> HIDE DEF l
<1>4. Unraced =>
         \/ UNCHANGED <<file, unwritten>>
         \/ file' = [file EXCEPT ![p] = l[1].val] /\ unwritten' = unwritten \ {p}
         \/ file' = file /\ unwritten' = unwritten \cup {p}
  BY <1>1 DEF RestoreHead, write_attr_value, fileVars
<1>5. UNCHANGED <<wpc, item, mpc>> /\ mpc \in {"destruct", "final"}
  BY DEF MainRollback, workVars, mainVars
<1>6. Alive'
  BY <1>5 DEF Alive
<1>7. Unraced => \A q \in Paths : q # p => /\ all_changes'[q] = all_changes[q]
                                           /\ file'[q] = file[q]
                                           /\ q \in unwritten' <=> q \in unwritten
  BY <1>0, <1>1, <1>4 DEF TypeOK
<1>8. Unraced => all_changes'[p] = l
  BY <1>0, <1>1 DEF TypeOK
<1>9. ASSUME Unraced, p \notin unwritten', Attr[p] # "GOV" PROVE Covered(p)'
  <2>1. CASE UNCHANGED <<file, unwritten>>
    <3>1. Covered(p)
      BY <1>9, <2>1 DEF LimitInv
    <3>2. \A i \in DOMAIN l : \/ Stronger(Attr[p], file[p], l[i].val)
                              \/ InHand(p, l[i].val)
      BY <1>2, <3>1 DEF Covered
    <3> QED BY <1>5, <1>8, <1>9, <2>1, <3>2 DEF Covered, InHand
  <2>2. CASE file' = [file EXCEPT ![p] = l[1].val] /\ unwritten' = unwritten \ {p}
    <3>1. file'[p] = l[1].val
      BY <1>0, <2>2
    <3>2. \A i \in DOMAIN l : Stronger(Attr[p], l[1].val, l[i].val)
      BY <1>0, <1>1, <1>2, <1>3, <1>9, HeadCovers
    <3> QED BY <1>8, <1>9, <3>1, <3>2 DEF Covered
  <2> QED BY <1>4, <1>9, <2>1, <2>2
<1> QED BY <1>5, <1>6, <1>7, <1>9, PathLimit

LEMMA ApplyLimit ==
    ASSUME IInv, SortInv, LimitInv, Next, WorkerApply PROVE LimitInv'
<1>p. PICK p \in Paths : p = item.path
  BY DEF IInv, TypeOK, Item
<1> DEFINE l == all_changes[p]
<1>0. /\ TypeOK /\ l \in Seq(Entry) /\ Attr[p] \in AttrNames
      /\ item.val \in Values /\ file \in [Paths -> Values]
  BY PowerapidAssumption DEF IInv, TypeOK, Item
<1>1. /\ wpc = "top" /\ wpc' = "loop" /\ UNCHANGED <<all_changes, mpc>> /\ l # <<>>
      /\ IF attr_value_comp(Attr[p], item, l[1]) = 0
         THEN \E ok \in BOOLEAN : write_attr_value(p, item.val, ok)
         ELSE UNCHANGED <<file, unwritten>>
  BY <1>p DEF WorkerApply, mainVars, regVars, fileVars
<1>2. l[1] \in Entry /\ 1 \in DOMAIN l
  BY <1>0, <1>1
<1>3. /\ l[1].val \in Int /\ item.val \in Int /\ file[p] \in Int
      /\ \A i \in DOMAIN l : l[i].val \in Int
  <2>1. \A i \in DOMAIN l : l[i] \in Entry
    BY <1>0
  <2>2. \A v \in Values : v \in Int
    BY PowerapidAssumption
  <2>3. file[p] \in Values
    BY <1>0
  <2> QED BY <1>0, <1>2, <2>1, <2>2, <2>3, ValuesAreInts
<1>4. Unraced /\ Attr[p] # "GOV" => SortedList(Attr[p], l)
  BY <1>0 DEF SortInv, Ordered
<1>5. Unraced /\ Attr[p] # "GOV"
         => \A i \in DOMAIN l : Stronger(Attr[p], l[1].val, l[i].val)
  BY <1>0, <1>1, <1>4, HeadCovers
<1>6. \/ UNCHANGED <<file, unwritten>>
      \/ file' = [file EXCEPT ![p] = item.val] /\ unwritten' = unwritten \ {p}
      \/ file' = file /\ unwritten' = unwritten \cup {p}
  BY <1>1 DEF write_attr_value
<1>7. Alive'
  BY <1>1 DEF LimitInv, Alive
<1>8. \A q \in Paths : q # p => /\ all_changes'[q] = all_changes[q]
                                /\ file'[q] = file[q]
                                /\ q \in unwritten' <=> q \in unwritten
  BY <1>0, <1>1, <1>6
<1>9. ASSUME Unraced, p \notin unwritten', Attr[p] # "GOV" PROVE Covered(p)'
  <2>1. CASE attr_value_comp(Attr[p], item, l[1]) = 0
    <3>1. item.val = l[1].val
      BY <1>0, <1>3, <1>9, <2>1, CompStronger
    <3>2. file'[p] = item.val
      BY <1>0, <1>1, <1>9, <2>1 DEF write_attr_value
    <3>3. \A i \in DOMAIN l : Stronger(Attr[p], file'[p], l[i].val)
      BY <1>5, <1>9, <3>1, <3>2
    <3> QED BY <1>1, <3>3 DEF Covered
  <2>2. CASE attr_value_comp(Attr[p], item, l[1]) # 0
    <3>1. item.val # l[1].val
      BY <1>0, <1>3, <1>9, <2>2, CompStronger
    <3>2. UNCHANGED <<file, unwritten>>
      BY <1>1, <2>2
    <3>3. Covered(p)
      BY <1>0, <1>9, <3>2 DEF LimitInv
    <3>4. Stronger(Attr[p], file[p], l[1].val)
      BY <1>2, <3>1, <3>3 DEF Covered, InHand
    <3>5. \A i \in DOMAIN l : Stronger(Attr[p], file[p], l[i].val)
      BY <1>3, <1>5, <1>9, <3>4, StrongerOrder
    <3> QED BY <1>1, <3>2, <3>5 DEF Covered
  <2> QED BY <2>1, <2>2
<1>10. \A q \in Paths : q # p => ~ (item.path = q)
  BY <1>p
<1> QED BY <1>7, <1>8, <1>9, <1>10, PathLimit

LEMMA LimitStep == IInv /\ SortInv /\ LimitInv /\ [Next]_vars => LimitInv'
<1> SUFFICES ASSUME IInv, SortInv, LimitInv, [Next]_vars PROVE LimitInv'
  OBVIOUS
<1>0. TypeOK
  BY DEF IInv
<1>1. CASE UNCHANGED vars
  BY <1>1 DEF vars, LimitInv, Covered, InHand, Alive, Unraced, Racing, Overlap,
     Dangling, WorkerInLists, MainInLists, workVars, mainVars, sockVars, regVars, fileVars
<1>2. CASE Next
  <2> USE DEF mainVars, sockVars, workVars, regVars, fileVars
  <2>1. ASSUME UNCHANGED <<all_changes, file, unwritten>>,
               UNCHANGED <<wpc, item>> \/ wpc \notin {"old", "top"},
               Alive' \/ (UNCHANGED wpc /\ ~ Alive)
        PROVE  LimitInv'
    <3>1. \A p \in Paths, v \in Values : InHand(p, v) => InHand(p, v)'
      BY <2>1 DEF InHand
    <3>2. ~ Alive' => wpc' = "none" /\ \A p \in Paths : all_changes[p] = <<>>
      BY <2>1 DEF LimitInv
    <3> QED BY <1>0, <1>2, <2>1, <3>1, <3>2, QuietLimit
  <2>2. CASE ClientStep
    <3>1. UNCHANGED <<all_changes, file, unwritten, wpc, item, mpc>>
      BY <2>2 DEF ClientStep, ClientConnect, ClientSend, ClientReceive, ClientEof, ClientClose
    <3> QED BY <2>1, <3>1 DEF Alive
  <2>3. CASE EnvStep
    <3>1. CASE \E how : ProcessEnds(how)
      BY <3>1, EndLimit
    <3>2. CASE ~ \E how : ProcessEnds(how)
      <4>1. /\ UNCHANGED <<all_changes, file, unwritten, wpc, item>>
            /\ Alive' \/ ~ Alive
        BY <2>3, <3>2 DEF EnvStep, Signal, Crash, Segv, Restart, AllowRestart, Alive
      <4> QED BY <2>1, <4>1
    <3> QED BY <3>1, <3>2
  <2>4. CASE WorkerStep
    <3>1. CASE WorkerDefault
      BY <1>2, <3>1, DefaultLimit
    <3>2. CASE WorkerReplace
      BY <1>2, <3>2, ReplaceLimit
    <3>3. CASE WorkerApply
      BY <1>2, <3>3, ApplyLimit
    <3>4. CASE WorkerLoop \/ WorkerPop \/ WorkerDefaultKept \/ WorkerDefaultFails
      <4>1. /\ UNCHANGED <<all_changes, file, unwritten, mpc>>
            /\ wpc \in {"loop", "pop", "def"}
        BY <3>4 DEF WorkerLoop, WorkerPop, WorkerDefaultKept, WorkerDefaultFails
      <4>2. Alive'
        BY <4>1 DEF LimitInv, Alive
      <4> QED BY <2>1, <4>1, <4>2
    <3> QED BY <2>4, <3>1, <3>2, <3>3, <3>4 DEF WorkerStep
  <2>5. CASE MainStep
    <3>1. CASE MainExit
      BY <3>1, EndLimit DEF MainExit
    <3>2. CASE \E p \in Paths : MainRollback(p)
      BY <1>2, <3>2, RollbackLimit
    <3>3. CASE MainBoot
      <4>1. /\ mpc = "boot" /\ UNCHANGED all_changes
            /\ UNCHANGED wpc \/ mpc' = "check"
        BY <3>3 DEF MainBoot
      <4>2. wpc = "none" /\ \A p \in Paths : all_changes[p] = <<>>
        BY <4>1 DEF LimitInv, Alive
      <4>3. \A p \in Paths : all_changes'[p] = <<>>
        BY <4>1, <4>2
      <4>4. \A p \in Paths : Covered(p)'
        BY <4>3 DEF Covered
      <4>5. ~ Alive' => wpc' = "none"
        BY <4>1, <4>2 DEF Alive
      <4> QED BY <4>3, <4>4, <4>5 DEF LimitInv
    <3>4. CASE ~ MainExit /\ ~ MainBoot /\ ~ \E p \in Paths : MainRollback(p)
      <4>1. /\ UNCHANGED <<all_changes, file, unwritten, wpc, item>>
            /\ Alive'
        BY <2>5, <3>4 DEF MainStep, MainCheck, MainEnterSelect, MainSelect,
           MainScanned, MainRefuse, MainAccept, MainAcceptFails, MainAuth, MainSet,
           MainLogLevel, MainDump, MainBadRequest, MainRead, MainDumped, MainLose,
           MainFree, MainStop, MainJoin, MainReset, MainFinalFree, Alive
      <4> QED BY <2>1, <4>1
    <3> QED BY <3>1, <3>2, <3>3, <3>4
  <2> QED BY <1>2, <2>2, <2>3, <2>4, <2>5 DEF Next
<1> QED BY <1>1, <1>2

LEMMA LimitInvAlways == Spec => []LimitInv
BY IInvAlways, SortInvAlways, LimitInit, LimitStep, PTL DEF Spec

\* What is left of the invariant when nothing is in hand.
LEMMA LimitMeans == TypeOK /\ LimitInv => LimitsKept
<1> SUFFICES ASSUME TypeOK, LimitInv, Unraced, NEW p \in Paths \ unwritten,
                    AtRest(p), Attr[p] # "GOV", NEW i \in DOMAIN all_changes[p]
             PROVE  attr_value_comp(Attr[p], [val |-> file[p]], all_changes[p][i]) <= 0
  BY DEF LimitsKept
<1>1. Stronger(Attr[p], file[p], all_changes[p][i].val)
  BY DEF LimitInv, Covered, InHand, AtRest, WorkerInLists
<1>2. all_changes[p][i] \in Entry /\ file[p] \in Values /\ Attr[p] \in AttrNames
  BY PowerapidAssumption DEF TypeOK
<1>3. all_changes[p][i].val \in Int /\ [val |-> file[p]].val \in Int
  BY <1>2, ValuesAreInts, PowerapidAssumption
<1> QED BY <1>1, <1>2, <1>3, CompStronger

\* LimitsKept, for any number of clients, paths and requests: until the threads
\* race and unless a write failed, no value that worker_process_item or
\* set_rollback leaves in a file is weaker than a frequency, power or C-state
\* limit in force.
THEOREM LimitsAlwaysKept == Spec => []LimitsKept
BY TypeCorrect, LimitInvAlways, LimitMeans, PTL

-----------------------------------------------------------------------------
\* Once the main thread resets the attributes, the worker is gone.
Joined == mpc \in {"reset", "final"} => wpc = "done"

\* The main thread listens to every open socket.
OpenWatched == \A c \in Conns : sk[c] = "open" => c \in incoming

\* The file of p holds the value at the head of the list, or that value is in
\* the worker's hand; the paths whose head was taken out without a write, and
\* those whose last write failed, aside.
HeadWritten(p) ==
    p \notin unwritten \cup displaced /\ Ordered(p) /\ all_changes[p] # <<>>
    => file[p] = all_changes[p][1].val \/ InHand(p, all_changes[p][1].val)

\* A default is the persistent value of its path, and so is the value in a
\* file whose default is not known yet.
DefaultPersists(p) ==
    /\ def_values[p] # NULL => def_values[p].val = orig[p]
    /\ def_values[p] = NULL /\ Alive => file[p] = orig[p]

HeadInv == Unraced => \A p \in Paths : HeadWritten(p)
DefaultInv == Unraced => \A p \in Paths : DefaultPersists(p)

-----------------------------------------------------------------------------
(* The sockets                                                             *)

LEMMA JoinedStep == Joined /\ LimitInv /\ Next => Joined'
<1> SUFFICES ASSUME Joined, LimitInv, Next PROVE Joined'
  OBVIOUS
<1> USE DEF mainVars, workVars, Joined
<1>1. CASE ClientStep
  BY <1>1 DEF ClientStep, ClientConnect, ClientSend, ClientReceive, ClientEof, ClientClose
<1>2. CASE EnvStep
  BY <1>2 DEF EnvStep, Signal, Crash, Segv, Restart, AllowRestart, ProcessEnds
<1>3. CASE WorkerStep
  BY <1>3 DEF WorkerStep, WorkerLoop, WorkerPop, WorkerDefaultKept, WorkerDefault,
     WorkerDefaultFails, WorkerReplace, WorkerApply
<1>4. CASE MainStep
  BY <1>4 DEF MainStep, MainBoot, MainCheck, MainEnterSelect, MainSelect,
     MainScanned, MainRefuse, MainAccept, MainAcceptFails, MainAuth, MainSet,
     MainLogLevel, MainDump, MainBadRequest, MainRead, MainDumped, MainLose,
     MainRollback, MainFree, MainStop, MainJoin, MainReset, MainFinalFree, MainExit,
     ProcessEnds
<1> QED BY <1>1, <1>2, <1>3, <1>4 DEF Next

LEMMA WatchedStep == IInv /\ OpenWatched /\ Next => OpenWatched'
<1> SUFFICES ASSUME IInv, OpenWatched, Next PROVE OpenWatched'
  OBVIOUS
<1>0. sk \in [Conns -> {"none", "open", "freed"}]
  BY DEF IInv, TypeOK
<1> USE DEF sockVars
<1>1. CASE UNCHANGED <<sk, incoming>>
  BY <1>1 DEF OpenWatched
<1>2. ASSUME NEW how, ProcessEnds(how) PROVE OpenWatched'
  BY <1>2 DEF ProcessEnds, OpenWatched
<1>3. ASSUME NEW c \in Conns, MainAccept(c) PROVE OpenWatched'
  BY <1>0, <1>3 DEF MainAccept, OpenWatched
<1>4. CASE MainFree \/ MainFinalFree
  <2>1. /\ sk' = [sk EXCEPT ![cur] = "freed"] /\ cur \in Conns
        /\ incoming' = incoming \/ incoming' = incoming \ {cur}
    BY <1>4 DEF MainFree, MainFinalFree, IInv, Places, TypeOK
  <2> QED BY <1>0, <2>1 DEF OpenWatched
<1>5. CASE ClientStep
  BY <1>1, <1>5 DEF ClientStep, ClientConnect, ClientSend, ClientReceive, ClientEof, ClientClose
<1>6. CASE EnvStep
  BY <1>1, <1>2, <1>6 DEF EnvStep, Signal, Crash, Segv, Restart, AllowRestart
<1>7. CASE WorkerStep
  BY <1>1, <1>7 DEF WorkerStep, WorkerLoop, WorkerPop, WorkerDefaultKept, WorkerDefault,
     WorkerDefaultFails, WorkerReplace, WorkerApply
<1>8. CASE MainStep /\ ~ MainFree /\ ~ MainFinalFree /\ ~ MainExit
           /\ ~ \E c \in Conns : MainAccept(c)
  <2>1. UNCHANGED <<sk, incoming>>
    BY <1>8 DEF MainStep, MainBoot, MainCheck, MainEnterSelect, MainSelect,
     MainScanned, MainRefuse, MainAcceptFails, MainAuth, MainSet,
     MainLogLevel, MainDump, MainBadRequest, MainRead, MainDumped, MainLose,
     MainRollback, MainStop, MainJoin, MainReset
  <2> QED BY <1>1, <2>1
<1>9. CASE MainExit
  BY <1>2, <1>9 DEF MainExit
<1> QED BY <1>3, <1>4, <1>5, <1>6, <1>7, <1>8, <1>9 DEF Next

-----------------------------------------------------------------------------
(* The head of the list                                                    *)

\* A step that changes neither lists nor files, and no request in hand.
LEMMA QuietHead ==
    ASSUME HeadInv, Next, UNCHANGED <<all_changes, file, unwritten, displaced>>,
           wpc \in {"old", "top"} => wpc' \in {"old", "top"} /\ UNCHANGED item
    PROVE  HeadInv'
<1>1. Unraced' => Unraced
  BY UnracedBefore
<1> QED BY <1>1 DEF HeadInv, HeadWritten, InHand, Ordered

\* A step on one path: what it does to the list and the file of p decides.
LEMMA PathHead ==
    ASSUME HeadInv, Next, NEW p \in Paths,
           Unraced => \A q \in Paths : q # p =>
               /\ all_changes'[q] = all_changes[q] /\ file'[q] = file[q]
               /\ q \in unwritten' <=> q \in unwritten
               /\ q \in displaced' <=> q \in displaced
               /\ wpc \in {"old", "top"} /\ item.path = q => UNCHANGED <<wpc, item>>,
           Unraced => HeadWritten(p)'
    PROVE  HeadInv'
<1>1. Unraced' => Unraced
  BY UnracedBefore
<1>2. ASSUME Unraced', NEW q \in Paths PROVE HeadWritten(q)'
  <2>1. CASE q = p
    BY <1>1, <1>2, <2>1
  <2>2. CASE q # p
    <3>1. HeadWritten(q)
      BY <1>1, <1>2 DEF HeadInv
    <3> QED BY <1>1, <1>2, <2>2, <3>1 DEF HeadWritten, InHand, Ordered
  <2> QED BY <2>1, <2>2
<1> QED BY <1>2 DEF HeadInv

\* The worker enters request e into the list of its path, where it takes the
\* place of a request of owner o, if there is one.
LEMMA EnterHead ==
    ASSUME IInv, HeadInv, Next, Unraced, NEW p \in Paths, item.path = p, NEW o,
           NEW e \in Entry, e.val = item.val \/ (e.val = file[p] /\ wpc = "def"),
           NEW kept, kept = all_changes[p] \/ kept = set_remove(all_changes[p], o),
           all_changes'[p] = set_insert(p, kept, e),
           UNCHANGED <<file, unwritten>>, displaced \subseteq displaced',
           kept = all_changes[p] \/ ~ HeadIs(all_changes[p], o) \/ p \in displaced',
           wpc' \in {"old", "top"}, item'.path = p, item'.val = item.val
    PROVE  HeadWritten(p)'
<1> DEFINE old == all_changes[p]
<1>1. old \in Seq(Entry) /\ kept \in Seq(Entry)
  BY ListTypes DEF IInv, TypeOK
<1>2. SUFFICES ASSUME p \notin unwritten \cup displaced', Ordered(p)
               PROVE  \/ file[p] = all_changes'[p][1].val
                      \/ all_changes'[p][1].val = item.val
  BY DEF HeadWritten, InHand, Ordered
<1>3. kept # <<>> => old # <<>> /\ kept[1] = old[1]
  <2>1. CASE kept = old
    BY <2>1
  <2>2. CASE kept # old
    <3>1. kept = set_remove(old, o) /\ ~ HeadIs(old, o)
      BY <1>2, <2>2
    <3>2. CASE old = <<>>
      BY <3>1, <3>2 DEF set_remove, RemoveOwner, Holds
    <3>3. CASE old # <<>>
      BY <1>1, <3>1, <3>3, RemoveHead DEF HeadIs, set_remove
    <3> QED BY <3>2, <3>3
  <2> QED BY <2>1, <2>2
<1>4. old # <<>> => file[p] = old[1].val \/ old[1].val = item.val
  BY <1>2 DEF HeadInv, HeadWritten, InHand
<1>5. \/ all_changes'[p][1] = e
      \/ kept # <<>> /\ all_changes'[p][1] = kept[1]
  BY <1>1, InsertHead, EntryIsRequest DEF set_insert
<1> QED BY <1>3, <1>4, <1>5

LEMMA DefaultHead ==
    ASSUME IInv, HeadInv, Next, WorkerDefault PROVE HeadInv'
<1> DEFINE p == item.path
           old == all_changes[p]
           kept == IF def_values[p] = NULL THEN old ELSE set_remove(old, NULL)
           d(t) == [own |-> NULL,
                    val |-> IF is_persistent(item.own) THEN item.val ELSE file[p],
                    ts  |-> IF Attr[p] = "GOV" THEN t ELSE 0]
<1>0. TypeOK /\ p \in Paths
  BY DEF IInv, TypeOK, Item
<1>1. PICK t \in Tick(p) : \E l \in Updates(old, set_insert(p, kept, d(t))) :
                              all_changes' = [all_changes EXCEPT ![p] = l]
  BY DEF WorkerDefault, read_attr_value
<1> DEFINE e == d(t)
<1>2. e \in Entry /\ (e.val = item.val \/ e.val = file[p])
  <2>1. t \in Nat
    BY <1>0, TickType
  <2>2. item.val \in Values /\ file[p] \in Values
    BY <1>0 DEF TypeOK, Item
  <2> QED BY <2>1, <2>2 DEF Entry
<1>3. \E l \in Updates(old, set_insert(p, kept, e)) :
         all_changes' = [all_changes EXCEPT ![p] = l]
  BY <1>1
<1> HIDE DEF e, d
<1>4. Unraced => /\ all_changes'[p] = set_insert(p, kept, e)
                 /\ \A q \in Paths : q # p => all_changes'[q] = all_changes[q]
  BY <1>0, <1>3 DEF Updates, Unraced, TypeOK
<1>5. /\ UNCHANGED <<file, unwritten, item>> /\ wpc = "def" /\ wpc' = "old"
      /\ displaced' = IF HeadIs(old, NULL) THEN displaced \cup {p} ELSE displaced
  BY DEF WorkerDefault
<1>6. /\ kept = old \/ kept = set_remove(old, NULL)
      /\ kept = old \/ ~ HeadIs(old, NULL) \/ p \in displaced'
  BY <1>5
<1>7. \A q \in Paths : q # p => (q \in displaced' <=> q \in displaced)
  BY <1>5
<1> HIDE DEF kept
<1>8. item'.path = p /\ item'.val = item.val
  BY <1>5
<1>9. ASSUME Unraced PROVE HeadWritten(p)'
  <2>1. all_changes'[p] = set_insert(p, kept, e) /\ displaced \subseteq displaced'
    BY <1>4, <1>5, <1>9
  <2> QED BY <1>0, <1>2, <1>5, <1>6, <1>8, <1>9, <2>1, EnterHead
<1> QED BY <1>0, <1>4, <1>5, <1>7, <1>9, PathHead

LEMMA ReplaceHead ==
    ASSUME IInv, HeadInv, Next, WorkerReplace PROVE HeadInv'
<1>p. PICK p \in Paths : p = item.path
  BY DEF IInv, TypeOK, Item
<1> DEFINE c == item.own
           old == all_changes[p]
           kept == IF my_changes[c][p] = NULL THEN old ELSE set_remove(old, c)
           x(t) == [own |-> c, val |-> item.val, ts |-> IF Attr[p] = "GOV" THEN t ELSE 0]
<1>0. TypeOK /\ c \in Conns /\ item \in Item
  BY DEF IInv, Places, WorkerInLists, WorkerReplace, TypeOK, Item
<1>1. PICK t \in Tick(p) : /\ item' = [item EXCEPT !.ts = x(t).ts]
                           /\ \E l \in Updates(old, set_insert(p, kept, x(t))) :
                                 all_changes' = [all_changes EXCEPT ![p] = l]
  BY <1>p DEF WorkerReplace
<1> DEFINE e == x(t)
<1>2. e \in Entry /\ e.val = item.val
  <2>1. t \in Nat
    BY <1>0, TickType
  <2>2. item.val \in Values
    BY <1>0 DEF Item
  <2> QED BY <1>0, <2>1, <2>2 DEF Entry
<1>3. /\ \E l \in Updates(old, set_insert(p, kept, e)) :
            all_changes' = [all_changes EXCEPT ![p] = l]
      /\ item'.path = p /\ item'.val = item.val
  BY <1>p, <1>0, <1>1 DEF Item
<1> HIDE DEF e, x
<1>4. Unraced => /\ all_changes'[p] = set_insert(p, kept, e)
                 /\ \A q \in Paths : q # p => all_changes'[q] = all_changes[q]
  BY <1>0, <1>3 DEF Updates, Unraced, TypeOK
<1>5. /\ UNCHANGED <<file, unwritten>> /\ wpc = "old" /\ wpc' = "top"
      /\ displaced' = IF my_changes[c][p] # NULL /\ HeadIs(old, c)
                      THEN displaced \cup {p} ELSE displaced
  BY <1>p DEF WorkerReplace
<1>6. /\ kept = old \/ kept = set_remove(old, c)
      /\ kept = old \/ ~ HeadIs(old, c) \/ p \in displaced'
  BY <1>5
<1>7. \A q \in Paths : q # p => (q \in displaced' <=> q \in displaced)
  BY <1>5
<1> HIDE DEF kept
<1>8. ASSUME Unraced PROVE HeadWritten(p)'
  <2>1. all_changes'[p] = set_insert(p, kept, e) /\ displaced \subseteq displaced'
    BY <1>4, <1>5, <1>8
  <2> HIDE DEF c
  <2> QED BY <1>p, <1>0, <1>2, <1>3, <1>5, <1>6, <1>8, <2>1, EnterHead
<1>9. Unraced => \A q \in Paths : q # p =>
          /\ all_changes'[q] = all_changes[q] /\ file'[q] = file[q]
          /\ q \in unwritten' <=> q \in unwritten
          /\ q \in displaced' <=> q \in displaced
          /\ wpc \in {"old", "top"} /\ item.path = q => UNCHANGED <<wpc, item>>
  BY <1>p, <1>4, <1>5, <1>7
<1> QED BY <1>8, <1>9, PathHead

\* Two requests that compare equal have the same value.
LEMMA EqualValues ==
    ASSUME NEW a \in AttrNames, NEW s1, NEW s2, s1.val \in Int, s2.val \in Int
    PROVE  attr_value_comp(a, s1, s2) = 0 <=> s1.val = s2.val
<1>1. CASE a # "GOV"
  BY <1>1, CompStronger
<1>2. CASE a = "GOV"
  BY <1>2 DEF attr_value_comp, gov_compare, LowerWins, HigherWins
<1> QED BY <1>1, <1>2

LEMMA ApplyHead ==
    ASSUME IInv, HeadInv, Next, WorkerApply PROVE HeadInv'
<1>p. PICK p \in Paths : p = item.path
  BY DEF IInv, TypeOK, Item
<1> DEFINE l == all_changes[p]
<1>0. /\ TypeOK /\ l \in Seq(Entry) /\ Attr[p] \in AttrNames
      /\ item.val \in Int /\ file \in [Paths -> Values]
  BY PowerapidAssumption DEF IInv, TypeOK, Item
<1>1. /\ wpc = "top" /\ wpc' = "loop" /\ UNCHANGED all_changes /\ l # <<>>
      /\ IF attr_value_comp(Attr[p], item, l[1]) = 0
         THEN \E ok \in BOOLEAN : write_attr_value(p, item.val, ok)
         ELSE UNCHANGED <<file, unwritten, displaced>>
  BY <1>p DEF WorkerApply, regVars, fileVars
<1>2. l[1] \in Entry
  BY <1>0, <1>1
<1>3. attr_value_comp(Attr[p], item, l[1]) = 0 <=> item.val = l[1].val
  BY <1>0, <1>2, ValuesAreInts, EqualValues
<1>4. \/ UNCHANGED <<file, unwritten, displaced>>
      \/ /\ file' = [file EXCEPT ![p] = item.val]
         /\ unwritten' = unwritten \ {p} /\ displaced' = displaced \ {p}
      \/ file' = file /\ unwritten' = unwritten \cup {p} /\ UNCHANGED displaced
  BY <1>1 DEF write_attr_value
<1>5. \A q \in Paths : q # p => /\ all_changes'[q] = all_changes[q]
                                /\ file'[q] = file[q]
                                /\ q \in unwritten' <=> q \in unwritten
                                /\ q \in displaced' <=> q \in displaced
                                /\ ~ (item.path = q)
  BY <1>p, <1>0, <1>1, <1>4
<1>6. ASSUME Unraced, p \notin unwritten' \cup displaced', Ordered(p)
      PROVE  file'[p] = all_changes'[p][1].val
  <2>1. CASE attr_value_comp(Attr[p], item, l[1]) = 0
    <3>1. file'[p] = item.val
      BY <1>0, <1>1, <1>6, <2>1 DEF write_attr_value
    <3> QED BY <1>1, <1>3, <2>1, <3>1
  <2>2. CASE attr_value_comp(Attr[p], item, l[1]) # 0
    <3>1. UNCHANGED <<file, unwritten, displaced>>
      BY <1>1, <2>2
    <3>2. HeadWritten(p)
      BY <1>6 DEF HeadInv
    <3> QED BY <1>1, <1>3, <1>6, <2>2, <3>1, <3>2 DEF HeadWritten, InHand
  <2> QED BY <2>1, <2>2
<1>7. Unraced => HeadWritten(p)'
  BY <1>6 DEF HeadWritten, Ordered
<1> QED BY <1>5, <1>7, PathHead

LEMMA RollbackHead ==
    ASSUME IInv, SortInv, TableInv, Joined, HeadInv, Next, NEW p \in Paths, MainRollback(p)
    PROVE  HeadInv'
<1> DEFINE old == all_changes[p]
           gone == my_changes[cur][p]
           l == set_remove(old, cur)
<1>0. /\ TypeOK /\ old \in Seq(Entry) /\ Attr[p] \in AttrNames
      /\ file \in [Paths -> Values] /\ cur \in Conns
  BY PowerapidAssumption DEF IInv, TypeOK, Places, MainRollback
<1>1. Unraced => /\ l # <<>>
                 /\ all_changes' = [all_changes EXCEPT ![p] = l]
                 /\ RestoreHead(p, gone, l)
  BY DEF MainRollback, Updates, Unraced
<1>2. l \in Seq(Entry) /\ \A i \in DOMAIN l : \E j \in DOMAIN old : l[i] = old[j]
  BY <1>0, ListTypes, RemoveOwnerElements DEF set_remove
<1>3. Unraced => wpc \notin {"old", "top"}
  BY DEF Unraced, Racing, Overlap, WorkerInLists, MainInLists, MainRollback, Joined
<1>4. Unraced =>
         \/ UNCHANGED <<file, unwritten, displaced>>
         \/ /\ file' = [file EXCEPT ![p] = l[1].val]
            /\ unwritten' = unwritten \ {p} /\ displaced' = displaced \ {p}
         \/ file' = file /\ unwritten' = unwritten \cup {p} /\ UNCHANGED displaced
  BY <1>1 DEF RestoreHead, write_attr_value, fileVars
<1>5. Unraced => \A q \in Paths : q # p =>
         /\ all_changes'[q] = all_changes[q] /\ file'[q] = file[q]
         /\ q \in unwritten' <=> q \in unwritten
         /\ q \in displaced' <=> q \in displaced
  BY <1>0, <1>1, <1>4 DEF TypeOK
<1>6. Unraced => all_changes'[p] = l
  BY <1>0, <1>1 DEF TypeOK
<1>7. ASSUME Unraced, p \notin unwritten' \cup displaced', Ordered(p)
      PROVE  file'[p] = l[1].val
  <2>1. CASE attr_value_comp(Attr[p], gone, l[1]) < 0
    BY <1>0, <1>1, <1>7, <2>1 DEF RestoreHead, write_attr_value
  <2>2. CASE ~ (attr_value_comp(Attr[p], gone, l[1]) < 0)
    <3>1. UNCHANGED <<file, unwritten, displaced>>
      BY <1>1, <1>7, <2>2 DEF RestoreHead, fileVars
    <3>2. PICK j \in DOMAIN old : l[1] = old[j]
      BY <1>1, <1>2, <1>7
    <3>3. 1 \in DOMAIN old /\ j \in Nat /\ 1 <= j /\ old # <<>>
      BY <1>0, <3>2
    <3>4. file[p] = old[1].val
      BY <1>3, <1>7, <3>1, <3>3 DEF HeadInv, HeadWritten, InHand
    <3>5. CASE old[1].own # cur
      <4>1. l[1] = old[1]
        BY <1>0, <3>3, <3>5, RemoveHead DEF set_remove
      <4> QED BY <3>1, <3>4, <4>1
    <3>6. CASE old[1].own = cur /\ j # 1
      <4>1. gone = old[1]
        <5>1. InForce(p)[cur] = old[1]
          BY <1>7, <3>3, <3>6 DEF TableInv, Represents
        <5> QED BY <1>0, <5>1, InForceType
      <4>2. attr_value_comp(Attr[p], old[1], old[j]) <= 0
        BY <1>7, <3>3, <3>6 DEF SortInv, SortedList
      <4>3. old[1] \in Entry /\ old[j] \in Entry
        BY <1>0, <3>3
      <4>4. /\ old[1].val \in Int /\ old[j].val \in Int
            /\ old[1].ts \in Int /\ old[j].ts \in Int
        BY <4>3, EntryIsRequest DEF Requests
      <4>5. attr_value_comp(Attr[p], old[1], old[j]) \in {-1, 0, 1}
        BY <4>4, CompType
      <4>6. attr_value_comp(Attr[p], old[1], old[j]) = 0
        BY <2>2, <3>2, <4>1, <4>2, <4>5
      <4>7. old[1].val = old[j].val
        BY <1>0, <4>4, <4>6, EqualValues
      <4> QED BY <3>1, <3>2, <3>4, <4>7
    <3>7. CASE j = 1
      BY <3>1, <3>2, <3>4, <3>7
    <3> QED BY <3>5, <3>6, <3>7
  <2> QED BY <2>1, <2>2
<1> HIDE DEF l
<1>8. Unraced => HeadWritten(p)'
  BY <1>6, <1>7 DEF HeadWritten, Ordered
<1> QED BY <1>3, <1>5, <1>8, PathHead

LEMMA HeadInit == Init => HeadInv
BY DEF Init, HeadInv, HeadWritten

LEMMA EndHead ==
    ASSUME NEW how, ProcessEnds(how) PROVE HeadInv'
BY DEF ProcessEnds, HeadInv, HeadWritten

LEMMA HeadStep ==
    IInv /\ SortInv /\ TableInv /\ LimitInv /\ Joined /\ HeadInv /\ [Next]_vars => HeadInv'
<1> SUFFICES ASSUME IInv, SortInv, TableInv, LimitInv, Joined, HeadInv, [Next]_vars
             PROVE  HeadInv'
  OBVIOUS
<1> USE DEF mainVars, sockVars, workVars, regVars, fileVars
<1>1. CASE UNCHANGED vars
  BY <1>1 DEF vars, HeadInv, HeadWritten, InHand, Ordered, Unraced, Racing, Overlap,
     Dangling, WorkerInLists, MainInLists
<1>2. CASE Next /\ ClientStep
  <2>1. UNCHANGED <<all_changes, file, unwritten, displaced, wpc, item>>
    BY <1>2 DEF ClientStep, ClientConnect, ClientSend, ClientReceive, ClientEof, ClientClose
  <2> QED BY <1>2, <2>1, QuietHead
<1>3. CASE Next /\ EnvStep
  <2>1. CASE \E how : ProcessEnds(how)
    BY <2>1, EndHead
  <2>2. CASE ~ \E how : ProcessEnds(how)
    <3>1. UNCHANGED <<all_changes, file, unwritten, displaced, wpc, item>>
      BY <1>3, <2>2 DEF EnvStep, Signal, Crash, Segv, Restart, AllowRestart
    <3> QED BY <1>3, <3>1, QuietHead
  <2> QED BY <2>1, <2>2
<1>4. CASE Next /\ WorkerStep
  <2>1. CASE WorkerDefault
    BY <1>4, <2>1, DefaultHead
  <2>2. CASE WorkerReplace
    BY <1>4, <2>2, ReplaceHead
  <2>3. CASE WorkerApply
    BY <1>4, <2>3, ApplyHead
  <2>4. CASE WorkerLoop \/ WorkerPop \/ WorkerDefaultKept \/ WorkerDefaultFails
    <3>1. /\ UNCHANGED <<all_changes, file, unwritten, displaced>>
          /\ wpc \in {"loop", "pop", "def"}
      BY <2>4 DEF WorkerLoop, WorkerPop, WorkerDefaultKept, WorkerDefaultFails
    <3> QED BY <1>4, <3>1, QuietHead
  <2> QED BY <1>4, <2>1, <2>2, <2>3, <2>4 DEF WorkerStep
<1>5. CASE Next /\ MainStep
  <2>1. CASE MainExit
    BY <2>1, EndHead DEF MainExit
  <2>2. CASE \E p \in Paths : MainRollback(p)
    BY <1>5, <2>2, RollbackHead
  <2>3. CASE MainBoot
    <3>1. \A p \in Paths : all_changes'[p] = <<>>
      BY <2>3 DEF MainBoot, LimitInv, Alive
    <3> QED BY <3>1 DEF HeadInv, HeadWritten
  <2>4. CASE ~ MainExit /\ ~ MainBoot /\ ~ \E p \in Paths : MainRollback(p)
    <3>1. UNCHANGED <<all_changes, file, unwritten, displaced, wpc, item>>
      BY <1>5, <2>4 DEF MainStep, MainCheck, MainEnterSelect, MainSelect,
         MainScanned, MainRefuse, MainAccept, MainAcceptFails, MainAuth, MainSet,
         MainLogLevel, MainDump, MainBadRequest, MainRead, MainDumped, MainLose,
         MainFree, MainStop, MainJoin, MainReset, MainFinalFree
    <3> QED BY <1>5, <3>1, QuietHead
  <2> QED BY <2>1, <2>2, <2>3, <2>4
<1> QED BY <1>1, <1>2, <1>3, <1>4, <1>5 DEF Next

-----------------------------------------------------------------------------
(* The persistent values                                                   *)

\* A step that changes neither defaults nor files.
LEMMA QuietDefault ==
    ASSUME DefaultInv, Next, UNCHANGED <<def_values, orig, file>>, Alive' => Alive
    PROVE  DefaultInv'
BY UnracedBefore DEF DefaultInv, DefaultPersists

\* A step on one path.
LEMMA PathDefault ==
    ASSUME DefaultInv, Next, NEW p \in Paths, Alive,
           \A q \in Paths : q # p =>
               /\ def_values'[q] = def_values[q] /\ file'[q] = file[q]
               /\ orig'[q] = orig[q],
           Unraced => DefaultPersists(p)'
    PROVE  DefaultInv'
<1>1. Unraced' => Unraced
  BY UnracedBefore
<1>2. ASSUME Unraced', NEW q \in Paths PROVE DefaultPersists(q)'
  <2>1. CASE q = p
    BY <1>1, <1>2, <2>1
  <2>2. CASE q # p
    BY <1>1, <1>2, <2>2 DEF DefaultInv, DefaultPersists
  <2> QED BY <2>1, <2>2
<1> QED BY <1>2 DEF DefaultInv

LEMMA DefaultDefault ==
    ASSUME IInv, LimitInv, DefaultInv, Next, WorkerDefault PROVE DefaultInv'
<1>p. PICK p \in Paths : p = item.path
  BY DEF IInv, TypeOK, Item
<1> DEFINE persist == is_persistent(item.own)
<1>0. def_values \in [Paths -> Entry \cup {NULL}] /\ orig \in [Paths -> Values]
  BY DEF IInv, TypeOK
<1>1. PICK d : /\ d.val = IF persist THEN item.val ELSE file[p]
               /\ def_values' = [def_values EXCEPT ![p] = d] /\ d \in Entry
  <2>1. PICK t \in Tick(p) :
           def_values' = [def_values EXCEPT ![p] =
               [own |-> NULL, val |-> IF persist THEN item.val ELSE file[p],
                ts  |-> IF Attr[p] = "GOV" THEN t ELSE 0]]
    BY <1>p DEF WorkerDefault, read_attr_value
  <2>2. t \in Nat /\ item.val \in Values /\ file[p] \in Values
    BY TickType DEF IInv, TypeOK, Item
  <2>3. [own |-> NULL, val |-> IF persist THEN item.val ELSE file[p],
         ts  |-> IF Attr[p] = "GOV" THEN t ELSE 0] \in Entry
    BY <2>2 DEF Entry
  <2> QED BY <2>1, <2>3
<1>2. /\ wpc = "def" /\ UNCHANGED file
      /\ def_values[p] = NULL \/ persist
      /\ orig' = IF persist THEN [orig EXCEPT ![p] = item.val] ELSE orig
  BY <1>p DEF WorkerDefault
<1>3. Alive
  BY <1>2 DEF LimitInv
<1>4. ASSUME Unraced PROVE DefaultPersists(p)'
  <2>1. def_values'[p] = d /\ d # NULL
    BY <1>0, <1>1, EntryFacts
  <2>2. CASE persist
    BY <1>0, <1>1, <1>2, <2>1, <2>2 DEF DefaultPersists
  <2>3. CASE ~ persist
    <3>1. file[p] = orig[p]
      BY <1>2, <1>3, <1>4, <2>3 DEF DefaultInv, DefaultPersists
    <3> QED BY <1>1, <1>2, <2>1, <2>3, <3>1 DEF DefaultPersists
  <2> QED BY <2>2, <2>3
<1> HIDE DEF persist
<1>5. \A q \in Paths : q # p =>
         /\ def_values'[q] = def_values[q] /\ file'[q] = file[q] /\ orig'[q] = orig[q]
  BY <1>0, <1>1, <1>2
<1> QED BY <1>3, <1>4, <1>5, PathDefault

\* A file is written for a path whose default is known.
LEMMA WriteDefault ==
    ASSUME DefaultInv, Next, NEW p \in Paths, Alive, UNCHANGED <<def_values, orig>>,
           Unraced => def_values[p] # NULL /\ \A q \in Paths : q # p => file'[q] = file[q]
    PROVE  DefaultInv'
<1>1. Unraced' => Unraced
  BY UnracedBefore
<1> QED BY <1>1 DEF DefaultInv, DefaultPersists

LEMMA DefaultStep ==
    IInv /\ TableInv /\ LimitInv /\ DefaultInv /\ [Next]_vars => DefaultInv'
<1> SUFFICES ASSUME IInv, TableInv, LimitInv, DefaultInv, [Next]_vars
             PROVE  DefaultInv'
  OBVIOUS
<1> USE DEF mainVars, sockVars, workVars, regVars, fileVars
<1>0. file \in [Paths -> Values] /\ item.path \in Paths
  BY DEF IInv, TypeOK, Item
<1>1. CASE UNCHANGED vars
  BY <1>1 DEF vars, DefaultInv, DefaultPersists, Alive, Unraced, Racing, Overlap,
     Dangling, WorkerInLists, MainInLists
<1>2. ASSUME NEW how \in {"exited", "dead"}, ProcessEnds(how) PROVE DefaultInv'
  BY <1>2 DEF ProcessEnds, DefaultInv, DefaultPersists, Alive
<1>3. CASE Next /\ ClientStep
  <2>1. UNCHANGED <<def_values, orig, file, mpc>>
    BY <1>3 DEF ClientStep, ClientConnect, ClientSend, ClientReceive, ClientEof, ClientClose
  <2> QED BY <1>3, <2>1, QuietDefault DEF Alive
<1>4. CASE Next /\ EnvStep
  <2>1. CASE ProcessEnds("exited") \/ ProcessEnds("dead")
    BY <1>2, <2>1
  <2>2. CASE ~ ProcessEnds("exited") /\ ~ ProcessEnds("dead")
    <3>1. UNCHANGED <<def_values, orig, file>> /\ (Alive' => Alive)
      BY <1>4, <2>2 DEF EnvStep, Signal, Crash, Segv, Restart, AllowRestart, Alive
    <3> QED BY <1>4, <3>1, QuietDefault
  <2> QED BY <2>1, <2>2
<1>5. CASE Next /\ WorkerStep
  <2>1. CASE WorkerDefault
    BY <1>5, <2>1, DefaultDefault
  <2>2. CASE WorkerApply
    <3>1. PICK p \in Paths : p = item.path
      BY <1>0
    <3>2. wpc = "top" /\ UNCHANGED <<def_values, orig>>
      BY <2>2 DEF WorkerApply
    <3>3. \A q \in Paths : q # p => file'[q] = file[q]
      BY <1>0, <2>2, <3>1 DEF WorkerApply, write_attr_value
    <3>4. Alive
      BY <3>2 DEF LimitInv
    <3>5. Unraced => def_values[p] # NULL
      BY <3>1, <3>2 DEF TableInv
    <3> QED BY <1>5, <3>2, <3>3, <3>4, <3>5, WriteDefault
  <2>3. CASE WorkerLoop \/ WorkerPop \/ WorkerDefaultKept \/ WorkerDefaultFails \/ WorkerReplace
    <3>1. UNCHANGED <<def_values, orig, file, mpc>>
      BY <2>3 DEF WorkerLoop, WorkerPop, WorkerDefaultKept, WorkerDefaultFails, WorkerReplace
    <3> QED BY <1>5, <3>1, QuietDefault DEF Alive
  <2> QED BY <1>5, <2>1, <2>2, <2>3 DEF WorkerStep
<1>6. CASE Next /\ MainStep
  <2>1. CASE MainExit
    BY <1>2, <2>1 DEF MainExit
  <2>2. ASSUME NEW p \in Paths, MainRollback(p) PROVE DefaultInv'
    <3>1. /\ my_changes[cur][p] # NULL /\ UNCHANGED <<def_values, orig>>
          /\ mpc \in {"destruct", "final"}
      BY <2>2 DEF MainRollback
    <3>2. \A q \in Paths : q # p => file'[q] = file[q]
      BY <1>0, <2>2 DEF MainRollback, RestoreHead, write_attr_value
    <3>3. Alive /\ cur \in Conns
      BY <3>1 DEF Alive, IInv, TypeOK, Places
    <3>4. Unraced => def_values[p] # NULL
      BY <3>1, <3>3 DEF TableInv
    <3> QED BY <1>6, <3>1, <3>2, <3>3, <3>4, WriteDefault
  <2>3. CASE MainBoot
    <3>1. /\ mpc = "boot" /\ UNCHANGED <<def_values, all_changes, file>>
          /\ orig' = file \/ (UNCHANGED orig /\ mpc' = "paused")
      BY <2>3 DEF MainBoot
    <3>2. ASSUME Unraced PROVE \A p \in Paths : def_values[p] = NULL
      <4>1. \A p \in Paths : all_changes[p] = <<>> /\ Represents(all_changes[p], InForce(p))
        BY <3>1, <3>2 DEF LimitInv, Alive, TableInv
      <4>2. \A p \in Paths : InForce(p)[NULL] = NULL
        BY <4>1 DEF Represents, Holds, Owner
      <4> QED BY <4>2 DEF InForce, Owner
    <3>3. Unraced' => Unraced
      BY <1>6, UnracedBefore
    <3> QED BY <3>1, <3>2, <3>3 DEF DefaultInv, DefaultPersists, Alive
  <2>4. CASE ~ MainExit /\ ~ MainBoot /\ ~ \E p \in Paths : MainRollback(p)
    <3>1. UNCHANGED <<def_values, orig, file>> /\ Alive
      BY <1>6, <2>4 DEF MainStep, MainCheck, MainEnterSelect, MainSelect,
         MainScanned, MainRefuse, MainAccept, MainAcceptFails, MainAuth, MainSet,
         MainLogLevel, MainDump, MainBadRequest, MainRead, MainDumped, MainLose,
         MainFree, MainStop, MainJoin, MainReset, MainFinalFree, Alive
    <3> QED BY <1>6, <3>1, QuietDefault
  <2> QED BY <2>1, <2>2, <2>3, <2>4
<1> QED BY <1>1, <1>3, <1>4, <1>5, <1>6 DEF Next

-----------------------------------------------------------------------------
FileInv == Joined /\ OpenWatched /\ HeadInv /\ DefaultInv

LEMMA FileInvAlways == Spec => []FileInv
<1>1. Init => FileInv
  <2> SUFFICES ASSUME Init PROVE FileInv
    OBVIOUS
  <2>1. HeadInv
    BY HeadInit
  <2>2. Joined /\ OpenWatched /\ DefaultInv
    BY DEF Init, Joined, OpenWatched, DefaultInv, DefaultPersists, Alive
  <2> QED BY <2>1, <2>2 DEF FileInv
<1>2. IInv /\ SortInv /\ TableInv /\ LimitInv /\ FileInv /\ [Next]_vars => FileInv'
  <2> SUFFICES ASSUME IInv, SortInv, TableInv, LimitInv, FileInv, [Next]_vars
               PROVE  FileInv'
    OBVIOUS
  <2>1. HeadInv' /\ DefaultInv'
    BY HeadStep, DefaultStep DEF FileInv
  <2>2. CASE Next
    BY <2>1, <2>2, JoinedStep, WatchedStep DEF FileInv
  <2>3. CASE UNCHANGED vars
    BY <2>1, <2>3 DEF FileInv, Joined, OpenWatched, vars, mainVars, sockVars, workVars
  <2> QED BY <2>2, <2>3
<1> QED BY <1>1, <1>2, IInvAlways, SortInvAlways, TableInvAlways, LimitInvAlways, PTL DEF Spec

\* The request stamped last.
LEMMA Newest ==
    ASSUME TypeOK, StampsPast, NEW p \in Paths, all_changes[p] # <<>>
    PROVE  \E i \in DOMAIN all_changes[p] : \A j \in DOMAIN all_changes[p] :
              all_changes[p][j].ts <= all_changes[p][i].ts
<1> DEFINE l == all_changes[p]
           T == {clock - l[i].ts : i \in DOMAIN l}
<1>1. l \in Seq(Entry) /\ clock \in Nat
  BY DEF TypeOK
<1>2. \A i \in DOMAIN l : l[i] \in Entry
  BY <1>1
<1>3. \A i \in DOMAIN l : l[i].ts \in Nat /\ l[i].ts <= clock
  BY <1>2 DEF Entry, StampsPast
<1>4. 1 \in DOMAIN l
  BY <1>1
<1> HIDE DEF l
<1>5. T \in SUBSET Nat /\ T # {}
  BY <1>1, <1>3, <1>4
<1>6. PICK x \in T : \A y \in T : x <= y
  BY <1>5, Least
<1>7. PICK i \in DOMAIN l : x = clock - l[i].ts
  BY <1>6
<1>8. ASSUME NEW j \in DOMAIN l PROVE l[j].ts <= l[i].ts
  <2>1. clock - l[i].ts <= clock - l[j].ts
    BY <1>6, <1>7
  <2>2. l[i].ts \in Nat /\ l[j].ts \in Nat
    BY <1>3
  <2> QED BY <1>1, <2>1, <2>2
<1>9. \A j \in DOMAIN l : l[j].ts <= l[i].ts
  BY <1>8
<1> QED BY <1>9 DEF l

\* Who is at the head of a list of governors.
LEMMA GovernorHead ==
    ASSUME NEW l \in Seq(Entry), l # <<>>, SortedList("GOV", l), NEW i \in DOMAIN l
    PROVE  \/ l[i].val = l[1].val
           \/ l[1].val = USERSPACE
           \/ l[i].val # USERSPACE /\ l[i].ts < l[1].ts
<1>1. 1 \in DOMAIN l /\ i \in Nat /\ 1 <= i
  OBVIOUS
<1>2. l[1] \in Entry /\ l[i] \in Entry
  BY <1>1
<1>3. l[1].ts \in Nat /\ l[i].ts \in Nat
  BY <1>2 DEF Entry
<1>4. CASE i = 1
  BY <1>4
<1>5. CASE i # 1
  <2>1. gov_compare(l[1], l[i]) <= 0
    BY <1>1, <1>5 DEF SortedList, attr_value_comp, LowerWins, HigherWins
  <2> QED BY <1>3, <2>1 DEF gov_compare
<1> QED BY <1>4, <1>5

LEMMA GovernorMeans ==
    ASSUME ~ ClockTies, TypeOK, SortInv, HeadInv PROVE NewestGovernorWins
<1> SUFFICES ASSUME Unraced, NEW p \in Paths \ (unwritten \cup displaced),
                    AtRest(p), all_changes[p] # <<>>, Attr[p] = "GOV"
             PROVE  LET l == all_changes[p]
                    IN  IF \E i \in DOMAIN l : l[i].val = USERSPACE
                        THEN file[p] = USERSPACE
                        ELSE \E i \in DOMAIN l : /\ file[p] = l[i].val
                                                 /\ \A j \in DOMAIN l : l[j].ts <= l[i].ts
  BY DEF NewestGovernorWins
<1> DEFINE l == all_changes[p]
<1>1. l \in Seq(Entry) /\ SortedList("GOV", l) /\ 1 \in DOMAIN l
  BY DEF TypeOK, SortInv, Ordered
<1>2. file[p] = l[1].val
  BY DEF HeadInv, HeadWritten, Ordered, InHand, AtRest, WorkerInLists
<1>3. CASE \E i \in DOMAIN l : l[i].val = USERSPACE
  <2> PICK i \in DOMAIN l : l[i].val = USERSPACE
    BY <1>3
  <2>1. l[1].val = USERSPACE
    BY <1>1, GovernorHead
  <2> QED BY <1>2, <1>3, <2>1
<1>4. CASE ~ \E i \in DOMAIN l : l[i].val = USERSPACE
  <2>1. PICK i \in DOMAIN l : \A j \in DOMAIN l : l[j].ts <= l[i].ts
    BY Newest DEF SortInv
  <2>2. l[1] \in Entry /\ l[i] \in Entry
    BY <1>1
  <2>3. l[1].ts \in Nat /\ l[i].ts \in Nat
    BY <2>2 DEF Entry
  <2>4. l[1].ts <= l[i].ts
    BY <1>1, <2>1
  <2>5. l[i].val = l[1].val
    BY <1>1, <1>4, <2>3, <2>4, GovernorHead
  <2> QED BY <1>2, <1>4, <2>1, <2>5
<1> QED BY <1>3, <1>4

\* NewestGovernorWins, for any number of clients and requests: with a clock
\* that never shows the same time twice, the governor that worker_process_item
\* and set_rollback leave in the file is userspace if anyone asks for it and
\* the one asked for last otherwise.
THEOREM NewestGovernorAlwaysWins ==
    ASSUME ~ ClockTies
    PROVE  Spec => []NewestGovernorWins
<1>1. TypeOK /\ SortInv /\ FileInv => NewestGovernorWins
  BY GovernorMeans DEF FileInv
<1> QED BY <1>1, TypeCorrect, SortInvAlways, FileInvAlways, PTL

-----------------------------------------------------------------------------
(* The dirty file                                                          *)

\* Without a dirty file, the file of p holds its persistent value.
CleanInv ==
    Unraced /\ ~ dirty => \A p \in Paths \ (unwritten \cup displaced) :
                              Ordered(p) => file[p] = orig[p]

\* While the daemon runs this follows from the tables: without clients the
\* list of p holds the default alone.
LEMMA CleanWhileAlive ==
    ASSUME IInv, TableInv, FileInv, Alive PROVE CleanInv
<1> SUFFICES ASSUME Unraced, ~ dirty, NEW p \in Paths \ (unwritten \cup displaced),
                    Ordered(p)
             PROVE  file[p] = orig[p]
  BY DEF CleanInv
<1> DEFINE l == all_changes[p]
<1>1. TypeOK /\ p \in Paths
  BY DEF IInv
<1>2. incoming = {}
  BY DEF IInv, ClientsCounted
<1>3. \A c \in Conns : sk[c] # "open"
  BY <1>2 DEF FileInv, OpenWatched
<1>4. \A c \in Conns : my_changes[c][p] = NULL
  BY <1>1, <1>3 DEF TableInv
<1>5. wpc \notin {"old", "top"}
  <2>1. ~ WorkerInLists
    BY <1>3 DEF TableInv, IInv, Places
  <2> QED BY <2>1 DEF WorkerInLists
<1>6. CASE def_values[p] = NULL
  BY <1>1, <1>6 DEF FileInv, DefaultInv, DefaultPersists
<1>7. CASE def_values[p] # NULL
  <2>1. Represents(l, InForce(p)) /\ l \in Seq(Entry) /\ InForce(p)[NULL] = def_values[p]
    BY <1>1, InForceType DEF TableInv
  <2>2. l # <<>> /\ 1 \in DOMAIN l
    BY <1>7, <2>1 DEF Represents, Holds, Owner
  <2>3. l[1] \in Entry /\ l[1].own \in Owner /\ InForce(p)[l[1].own] = l[1] /\ l[1] # NULL
    BY <2>1, <2>2, EntryFacts DEF Represents
  <2>4. l[1].own = NULL
    BY <1>1, <1>4, <2>3, InForceType DEF Owner
  <2>5. l[1] = def_values[p]
    BY <2>1, <2>3, <2>4
  <2>6. file[p] = l[1].val
    BY <1>5, <2>2 DEF FileInv, HeadInv, HeadWritten, InHand
  <2>7. def_values[p].val = orig[p]
    BY <1>1, <1>7 DEF FileInv, DefaultInv, DefaultPersists
  <2> QED BY <2>5, <2>6, <2>7
<1> QED BY <1>6, <1>7

\* A daemon that is down has left the files as they were.
LEMMA CleanStep ==
    CleanInv /\ LimitInv /\ [Next]_vars /\ ~ Alive' => CleanInv'
<1> SUFFICES ASSUME CleanInv, LimitInv, [Next]_vars, ~ Alive' PROVE CleanInv'
  OBVIOUS
<1> USE DEF mainVars, sockVars, workVars, regVars, fileVars, diskVars
<1>1. CASE UNCHANGED vars
  BY <1>1 DEF vars, CleanInv, Ordered, Unraced, Racing, Overlap, Dangling,
     WorkerInLists, MainInLists
<1>2. ASSUME Next, UNCHANGED <<file, orig, displaced, unwritten, dirty>> PROVE CleanInv'
  BY <1>2, UnracedBefore DEF CleanInv, Ordered
<1>3. ASSUME NEW how, ProcessEnds(how), Next PROVE CleanInv'
  BY <1>2, <1>3 DEF ProcessEnds
<1>4. CASE Next /\ ClientStep
  <2>1. UNCHANGED <<file, orig, displaced, unwritten, dirty>>
    BY <1>4 DEF ClientStep, ClientConnect, ClientSend, ClientReceive, ClientEof, ClientClose
  <2> QED BY <1>2, <1>4, <2>1
<1>5. CASE Next /\ EnvStep
  <2>1. CASE \E how : ProcessEnds(how)
    BY <1>3, <1>5, <2>1
  <2>2. CASE UNCHANGED <<file, orig, displaced, unwritten, dirty>>
    BY <1>2, <1>5, <2>2
  <2> QED BY <1>5, <2>1, <2>2 DEF EnvStep, Signal, Crash, Segv, Restart, AllowRestart
<1>6. CASE Next /\ WorkerStep
  <2>1. UNCHANGED mpc /\ wpc # "none"
    BY <1>6 DEF WorkerStep, WorkerLoop, WorkerPop, WorkerDefaultKept, WorkerDefault,
       WorkerDefaultFails, WorkerReplace, WorkerApply
  <2> QED BY <2>1 DEF LimitInv, Alive
<1>7. CASE Next /\ MainStep
  <2>1. CASE MainExit
    BY <1>3, <1>7, <2>1 DEF MainExit
  <2>2. CASE MainBoot
    <3>1. CASE mpc' = "paused" /\ UNCHANGED <<file, orig, displaced, unwritten, dirty>>
      BY <1>2, <1>7, <3>1
    <3>2. CASE orig' = file /\ UNCHANGED file
      BY <3>2 DEF CleanInv
    <3> QED BY <2>2, <3>1, <3>2 DEF MainBoot
  <2>3. CASE ~ MainExit /\ ~ MainBoot
    <3>1. Alive'
      BY <1>7, <2>3 DEF MainStep, MainCheck, MainEnterSelect, MainSelect,
         MainScanned, MainRefuse, MainAccept, MainAcceptFails, MainAuth, MainSet,
         MainLogLevel, MainDump, MainBadRequest, MainRead, MainDumped, MainLose,
         MainRollback, MainFree, MainStop, MainJoin, MainReset, MainFinalFree, Alive
    <3> QED BY <3>1
  <2> QED BY <2>1, <2>2, <2>3
<1> QED BY <1>1, <1>4, <1>5, <1>6, <1>7 DEF Next

LEMMA CleanInvAlways == Spec => []CleanInv
<1>1. Init => CleanInv
  BY DEF Init, CleanInv
<1>2. /\ CleanInv /\ LimitInv /\ [Next]_vars /\ IInv' /\ TableInv' /\ FileInv'
      => CleanInv'
  <2>1. IInv /\ TableInv /\ FileInv /\ Alive => CleanInv
    BY CleanWhileAlive
  <2>2. (IInv /\ TableInv /\ FileInv /\ Alive => CleanInv)'
    BY <2>1, PTL
  <2> QED BY <2>2, CleanStep
<1> QED BY <1>1, <1>2, IInvAlways, TableInvAlways, LimitInvAlways, FileInvAlways, PTL DEF Spec

\* CleanMeansPersistent, for any number of clients, requests, crashes and
\* restarts: with a clock that never shows the same time twice, a start that
\* finds no dirty file finds the persistent values in the files, whenever the
\* daemon died, unless a write failed, a winning request was taken out
\* without a write, or the threads raced.
THEOREM CleanAlwaysPersistent ==
    ASSUME ~ ClockTies
    PROVE  Spec => []CleanMeansPersistent
<1>1. CleanInv => CleanMeansPersistent
  BY DEF CleanInv, CleanMeansPersistent, Ordered
<1> QED BY <1>1, CleanInvAlways, PTL

(***************************************************************************)
(* Every request is answered once and under its own number: a request moves *)
(* from the socket to the queue, to the worker and back as an answer, and is *)
(* never in two places.                                                    *)
(***************************************************************************)
\* The requests of c in a queue.
Count(q, c) == Cardinality({i \in DOMAIN q : q[i].own = c})

\* The requests of c that are still to be answered.
OnWay(c) ==
    (IF up[c] # NULL THEN 1 ELSE 0) + Count(work_queue, c)
    + (IF WorkerInLists /\ item.own = c THEN 1 ELSE 0)
    + (IF mpc = "dump" /\ cur = c THEN 1 ELSE 0)

\* A client that waits has one request on its way or one answer to read, and
\* the number of its socket_info_t is that of the request until the answer is
\* sent.
Answered(c) ==
    ~ closed[c] =>
        /\ cli[c] = "waiting" => /\ OnWay(c) + Len(down[c]) = 1
                                 /\ seqnum[c] = reqs[c] - 1 + Len(down[c])
        /\ cli[c] \in {"new", "idle"} => /\ OnWay(c) + Len(down[c]) = 0
                                         /\ seqnum[c] = reqs[c]
        /\ cli[c] = "new" => reqs[c] = 0
        /\ \A i \in DOMAIN down[c] : down[c][i].to = c /\ down[c][i].seq = reqs[c] - 1

AnswerInv == Unraced => \A c \in Conns : Answered(c)

-----------------------------------------------------------------------------
(* Counting                                                                *)

LEMMA CountType ==
    ASSUME NEW E, NEW q \in Seq(E), NEW c
    PROVE  Count(q, c) \in Nat /\ IsFiniteSet({i \in DOMAIN q : q[i].own = c})
<1>1. IsFiniteSet(1 .. Len(q)) /\ {i \in DOMAIN q : q[i].own = c} \in SUBSET (1 .. Len(q))
  BY FS_Interval
<1>2. IsFiniteSet({i \in DOMAIN q : q[i].own = c})
  BY <1>1, FS_Subset
<1> QED BY <1>2, FS_CardinalityType DEF Count

LEMMA CountAppend ==
    ASSUME NEW E, NEW q \in Seq(E), NEW x, NEW c
    PROVE  Count(Append(q, x), c) = Count(q, c) + (IF x.own = c THEN 1 ELSE 0)
<1> DEFINE S == {i \in DOMAIN q : q[i].own = c}
           T == {i \in DOMAIN Append(q, x) : Append(q, x)[i].own = c}
           n == Len(q) + 1
<1>1. IsFiniteSet(S) /\ Cardinality(S) \in Nat
  BY CountType DEF Count
<1>2. n \notin S
  OBVIOUS
<1>3. T = IF x.own = c THEN S \cup {n} ELSE S
  <2>1. /\ DOMAIN Append(q, x) = DOMAIN q \cup {n}
        /\ \A i \in DOMAIN q : Append(q, x)[i] = q[i]
        /\ Append(q, x)[n] = x /\ n \notin DOMAIN q
    OBVIOUS
  <2> QED BY <2>1
<1> HIDE DEF S, T, n
<1>4. Cardinality(S \cup {n}) = Cardinality(S) + 1
  BY <1>1, <1>2, FS_AddElement
<1>5. Cardinality(T) = Cardinality(S) + (IF x.own = c THEN 1 ELSE 0)
  BY <1>1, <1>3, <1>4
<1> QED BY <1>5 DEF Count, S, T

LEMMA CountTail ==
    ASSUME NEW E, NEW q \in Seq(E), q # <<>>, NEW c
    PROVE  Count(Tail(q), c) = Count(q, c) - (IF q[1].own = c THEN 1 ELSE 0)
<1> DEFINE S == {i \in DOMAIN q : q[i].own = c}
           T == {i \in DOMAIN Tail(q) : Tail(q)[i].own = c}
           f == [i \in S \ {1} |-> i - 1]
<1>1. IsFiniteSet(S) /\ Cardinality(S) \in Nat
  BY CountType DEF Count
<1>2. 1 \in S <=> q[1].own = c
  BY SMT
<1>3. IsFiniteSet(S \ {1}) /\ Cardinality(S \ {1}) = IF 1 \in S THEN Cardinality(S) - 1
                                                      ELSE Cardinality(S)
  <2> HIDE DEF S
  <2> QED BY <1>1, FS_RemoveElement
<1>4. /\ \A i \in S \ {1} : i - 1 \in T
      /\ \A j \in T : j + 1 \in S \ {1} /\ j = (j + 1) - 1
      /\ \A i, j \in S \ {1} : i - 1 = j - 1 => i = j
  OBVIOUS
<1> HIDE DEF S, T
<1>5. f \in Bijection(S \ {1}, T)
  <2>1. f \in [S \ {1} -> T]
    BY <1>4
  <2>2. IsInjective(f)
    BY <1>4 DEF IsInjective
  <2>3. \A j \in T : \E i \in S \ {1} : f[i] = j
    BY <1>4
  <2> HIDE DEF f
  <2> QED BY <2>1, <2>2, <2>3 DEF Bijection, Injection, Surjection
<1>6. Cardinality(T) = Cardinality(S \ {1})
  BY <1>3, <1>5, FS_Bijection DEF ExistsBijection
<1>7. Cardinality(T) = Cardinality(S) - (IF q[1].own = c THEN 1 ELSE 0)
  BY <1>1, <1>2, <1>3, <1>6
<1> QED BY <1>7 DEF Count, S, T

LEMMA OnWayType ==
    ASSUME TypeOK, NEW c PROVE OnWay(c) \in Nat
<1>1. Count(work_queue, c) \in Nat
  BY CountType DEF TypeOK
<1> QED BY <1>1 DEF OnWay

-----------------------------------------------------------------------------
(* What a step does to one client                                          *)

\* Nothing that concerns c happens, or its connection is closed.
LEMMA SameAnswers ==
    ASSUME NEW c \in Conns, Answered(c),
           ~ closed'[c] => /\ ~ closed[c] /\ cli'[c] = cli[c] /\ reqs'[c] = reqs[c]
                           /\ seqnum'[c] = seqnum[c] /\ down'[c] = down[c]
                           /\ OnWay(c)' = OnWay(c)
    PROVE  Answered(c)'
BY DEF Answered

\* send_response to a client whose socket is open reaches that client alone.
LEMMA ResponseReaches ==
    ASSUME TypeOK, NEW c \in Conns, NEW ret, sk[c] = "open", send_response(c, ret)
    PROVE  /\ \A d \in Conns \ {c} : down'[d] = down[d] /\ seqnum'[d] = seqnum[d]
           /\ seqnum'[c] = seqnum[c] + 1
           /\ cli[c] = "gone" => down'[c] = down[c]
           /\ cli[c] # "gone" =>
                 down'[c] = Append(down[c], [ret |-> ret, seq |-> seqnum[c], to |-> c])
<1>1. Peers(c) = {c}
  BY DEF Peers
<1>2. seqnum \in [Conns -> Nat] /\ seqnum' = [seqnum EXCEPT ![c] = @ + 1]
  BY DEF TypeOK, send_response
<1>3. down' = [d \in Conns |->
                 IF d \in {c} /\ cli[d] # "gone"
                 THEN Append(down[d], [ret |-> ret, seq |-> seqnum[c], to |-> c])
                 ELSE down[d]]
  BY <1>1 DEF send_response
<1> QED BY <1>2, <1>3

\* A request of c that was on its way is answered.
LEMMA AnswerSent ==
    ASSUME TypeOK, NEW c \in Conns, Answered(c), NEW ret, sk[c] = "open",
           send_response(c, ret), OnWay(c) # 0, OnWay(c)' = OnWay(c) - 1,
           UNCHANGED <<cli, reqs, closed>>
    PROVE  Answered(c)'
<1>0. /\ OnWay(c) \in Nat /\ down[c] \in Seq(Response)
      /\ seqnum[c] \in Nat /\ reqs[c] \in Nat
      /\ cli[c] \in {"new", "idle", "waiting", "gone"}
  BY OnWayType DEF TypeOK
<1> DEFINE r == [ret |-> ret, seq |-> seqnum[c], to |-> c]
<1>1. /\ seqnum'[c] = seqnum[c] + 1
      /\ cli[c] = "gone" => down'[c] = down[c]
      /\ cli[c] # "gone" => down'[c] = Append(down[c], r)
      /\ r.seq = seqnum[c] /\ r.to = c
  BY ResponseReaches
<1> HIDE DEF r
<1>2. Len(down[c]) \in Nat
  BY <1>0
<1> SUFFICES ASSUME ~ closed[c] PROVE Answered(c)'
  BY DEF Answered
<1>3. CASE cli[c] = "gone"
  BY <1>1, <1>3 DEF Answered
<1>4. CASE cli[c] \in {"new", "idle"}
  BY <1>0, <1>2, <1>4 DEF Answered
<1>5. CASE cli[c] = "waiting"
  <2>1. OnWay(c) = 1 /\ Len(down[c]) = 0 /\ seqnum[c] = reqs[c] - 1
    BY <1>0, <1>2, <1>5 DEF Answered
  <2>2. down[c] = <<>> /\ down'[c] = Append(<<>>, r)
    BY <1>0, <1>1, <1>5, <2>1
  <2>3. Len(down'[c]) = 1 /\ DOMAIN down'[c] = {1} /\ down'[c][1] = r
    BY <2>2
  <2>4. seqnum'[c] = reqs'[c] - 1 + Len(down'[c]) /\ OnWay(c)' + Len(down'[c]) = 1
    BY <1>0, <1>1, <2>1, <2>3
  <2> QED BY <1>1, <1>5, <2>1, <2>3, <2>4 DEF Answered
<1> QED BY <1>0, <1>3, <1>4, <1>5

\* Where the requests of a client are does not change.
LEMMA SameWay ==
    ASSUME NEW c, up'[c] = NULL <=> up[c] = NULL,
           Count(work_queue', c) = Count(work_queue, c),
           (WorkerInLists /\ item.own = c)' <=> (WorkerInLists /\ item.own = c),
           (mpc = "dump" /\ cur = c)' <=> (mpc = "dump" /\ cur = c)
    PROVE  OnWay(c)' = OnWay(c)
BY DEF OnWay

\* A step that neither sends nor takes anything.
LEMMA QuietAnswers ==
    ASSUME AnswerInv, Next, UNCHANGED <<cli, reqs, seqnum, work_queue>>,
           \A c \in Conns : ~ closed'[c] =>
              ~ closed[c] /\ up'[c] = up[c] /\ down'[c] = down[c],
           \A c \in Conns :
              /\ (WorkerInLists /\ item.own = c)' <=> (WorkerInLists /\ item.own = c)
              /\ (mpc = "dump" /\ cur = c)' <=> (mpc = "dump" /\ cur = c)
    PROVE  AnswerInv'
<1>1. Unraced' => Unraced
  BY UnracedBefore
<1>2. ASSUME NEW c \in Conns, Answered(c) PROVE Answered(c)'
  <2>1. ~ closed'[c] => OnWay(c)' = OnWay(c)
    BY SameWay
  <2> QED BY <1>2, <2>1, SameAnswers
<1> QED BY <1>1, <1>2 DEF AnswerInv

-----------------------------------------------------------------------------
(* The clients                                                             *)

LEMMA ClientAnswers ==
    ASSUME IInv, AnswerInv, Next, ClientStep PROVE AnswerInv'
<1>0. /\ TypeOK /\ cli \in [Conns -> {"new", "idle", "waiting", "gone"}]
      /\ reqs \in [Conns -> Nat] /\ up \in [Conns -> Request \cup {NULL}]
      /\ down \in [Conns -> Seq(Response)] /\ seqnum \in [Conns -> Nat]
  BY DEF IInv, TypeOK
<1>1. Unraced' => Unraced
  BY UnracedBefore
<1> SUFFICES ASSUME Unraced PROVE \A d \in Conns : Answered(d)'
  BY <1>1 DEF AnswerInv
<1>2. /\ UNCHANGED <<closed, seqnum, work_queue, wpc, item, mpc, cur>>
  BY DEF ClientStep, ClientConnect, ClientSend, ClientReceive, ClientEof, ClientClose,
     wireVars, mainVars, workVars
<1>3. \A d \in Conns : Answered(d) /\ OnWay(d) \in Nat /\ Len(down[d]) \in Nat
  <2> TAKE d \in Conns
  <2>1. down[d] \in Seq(Response)
    BY <1>0
  <2> QED BY <1>0, <2>1, OnWayType DEF AnswerInv
<1>4. PICK c \in Conns :
         \/ ClientConnect(c) \/ \E r \in Sendable : ClientSend(c, r)
         \/ ClientReceive(c) \/ ClientEof(c) \/ ClientClose(c)
  BY DEF ClientStep
<1>5. ASSUME NEW d \in Conns, d # c PROVE Answered(d)'
  <2>1. cli'[d] = cli[d] /\ reqs'[d] = reqs[d] /\ up'[d] = up[d] /\ down'[d] = down[d]
    BY <1>0, <1>4, <1>5 DEF ClientConnect, ClientSend, ClientReceive, ClientEof,
       ClientClose, wireVars
  <2>2. OnWay(d)' = OnWay(d)
    BY <1>2, <2>1, SameWay DEF WorkerInLists
  <2> QED BY <1>2, <1>3, <2>1, <2>2, SameAnswers
<1>6. CASE ClientConnect(c)
  <2>1. cli[c] = "new" /\ cli'[c] = "idle" /\ UNCHANGED <<reqs, up, down>>
    BY <1>0, <1>6 DEF ClientConnect
  <2>2. OnWay(c)' = OnWay(c)
    BY <1>2, <2>1, SameWay DEF WorkerInLists
  <2>3. Answered(c)'
    BY <1>2, <1>3, <2>1, <2>2 DEF Answered
  <2> QED BY <1>5, <2>3
<1>7. ASSUME NEW r \in Sendable, ClientSend(c, r) PROVE Answered(c)'
  <2>1. /\ cli[c] = "idle" /\ cli'[c] = "waiting" /\ UNCHANGED down /\ ~ closed[c]
        /\ reqs'[c] = reqs[c] + 1 /\ up'[c] = r
    BY <1>0, <1>7 DEF ClientSend
  <2>2. r # NULL
    BY NullIsNoRecord DEF Sendable, Request
  <2>3. OnWay(c) = 0 /\ Len(down[c]) = 0 /\ seqnum[c] = reqs[c]
    BY <1>3, <2>1 DEF Answered
  <2>4. up[c] = NULL
    <3>1. Count(work_queue, c) \in Nat
      BY <1>0, CountType DEF TypeOK
    <3> QED BY <2>3, <3>1 DEF OnWay
  <2>5. OnWay(c)' = 1
    <3>1. Count(work_queue, c) \in Nat
      BY <1>0, CountType DEF TypeOK
    <3>2. OnWay(c)' = OnWay(c) + 1
      BY <1>2, <2>1, <2>2, <2>4, <3>1 DEF OnWay, WorkerInLists
    <3> QED BY <2>3, <3>2
  <2>6. DOMAIN down[c] = {}
    <3>1. down[c] \in Seq(Response)
      BY <1>0
    <3> QED BY <2>3, <3>1
  <2>7. reqs[c] \in Nat
    BY <1>0
  <2>8. seqnum'[c] = reqs'[c] - 1 + Len(down'[c]) /\ OnWay(c)' + Len(down'[c]) = 1
    BY <1>2, <2>1, <2>3, <2>5, <2>7
  <2> QED BY <2>1, <2>6, <2>8 DEF Answered
<1>8. ASSUME ClientReceive(c) PROVE Answered(c)'
  <2>1. /\ cli[c] = "waiting" /\ cli'[c] = "idle" /\ UNCHANGED <<reqs, up>>
        /\ down[c] # <<>> /\ down'[c] = Tail(down[c]) /\ down[c] \in Seq(Response)
    BY <1>0, <1>8 DEF ClientReceive
  <2>2. OnWay(c)' = OnWay(c)
    BY <1>2, <2>1, SameWay DEF WorkerInLists
  <2>3. Len(down[c]) # 0
    BY <2>1
  <2>a. Answered(c) /\ OnWay(c) \in Nat /\ Len(down[c]) \in Nat
    BY <1>3
  <2>b. closed'[c] = closed[c] /\ seqnum'[c] = seqnum[c]
    BY <1>2
  <2>4. CASE closed[c]
    BY <2>b, <2>4 DEF Answered
  <2>5. CASE ~ closed[c]
    <3>0. OnWay(c) + Len(down[c]) = 1 /\ seqnum[c] = reqs[c] - 1 + Len(down[c])
      BY <2>a, <2>1, <2>5 DEF Answered
    <3>a. \A m, n \in Nat : m + n = 1 /\ n # 0 => m = 0 /\ n = 1
      OBVIOUS
    <3>b. OnWay(c) = 0 /\ Len(down[c]) = 1
      BY <2>a, <2>3, <3>0, <3>a
    <3>1. OnWay(c) = 0 /\ Len(down[c]) = 1 /\ seqnum[c] = reqs[c] - 1 + 1
      BY <3>0, <3>b
    <3>c. \A q \in Seq(Response) : Len(q) = 1 => Len(Tail(q)) = 0 /\ DOMAIN Tail(q) = {}
      OBVIOUS
    <3>2. Len(down'[c]) = 0 /\ DOMAIN down'[c] = {}
      BY <2>1, <3>1, <3>c
    <3>3. reqs[c] \in Nat
      BY <1>0
    <3>4. seqnum'[c] = reqs'[c] /\ OnWay(c)' + Len(down'[c]) = 0
      BY <2>b, <2>1, <2>2, <3>1, <3>2, <3>3
    <3> QED BY <2>1, <3>2, <3>4 DEF Answered
  <2> QED BY <2>4, <2>5
<1>9. CASE ClientEof(c) \/ ClientClose(c)
  <2>1. cli'[c] = "gone" /\ (closed'[c] \/ down'[c] = <<>>)
    BY <1>0, <1>2, <1>9 DEF ClientEof, ClientClose
  <2>2. Answered(c)'
    BY <2>1 DEF Answered
  <2> QED BY <1>5, <2>2
<1> QED BY <1>4, <1>5, <1>6, <1>7, <1>8, <1>9

-----------------------------------------------------------------------------
(* The daemon                                                              *)

\* No thread works on a request while the daemon is not running.
NobodyWorks == ~ Alive => wpc = "none"

LEMMA NobodyWorksStep == NobodyWorks /\ [Next]_vars => NobodyWorks'
<1> SUFFICES ASSUME NobodyWorks, [Next]_vars PROVE NobodyWorks'
  OBVIOUS
<1> USE DEF NobodyWorks, Alive, mainVars, workVars
<1>1. CASE UNCHANGED vars
  BY <1>1 DEF vars
<1>2. CASE ClientStep
  BY <1>2 DEF ClientStep, ClientConnect, ClientSend, ClientReceive, ClientEof, ClientClose
<1>3. CASE EnvStep
  BY <1>3 DEF EnvStep, Signal, Crash, Segv, Restart, AllowRestart, ProcessEnds
<1>4. CASE WorkerStep
  BY <1>4 DEF WorkerStep, WorkerLoop, WorkerPop, WorkerDefaultKept, WorkerDefault,
     WorkerDefaultFails, WorkerReplace, WorkerApply
<1>5. CASE MainStep
  <2>1. CASE MainBoot
    BY <2>1 DEF MainBoot
  <2>2. CASE MainExit
    BY <2>2 DEF MainExit, ProcessEnds
  <2>3. ASSUME NEW c \in Conns,
               \/ MainAuth(c) \/ MainSet(c) \/ MainLogLevel(c) \/ MainDump(c)
               \/ MainBadRequest(c) \/ MainRefuse(c) \/ MainAccept(c)
               \/ MainLose(c) \/ MainReset(c)
        PROVE  NobodyWorks'
    <3>1. mpc' \in {"scan", "dump", "destruct", "final"}
      BY <2>3 DEF MainAuth, MainSet, MainLogLevel, MainDump, MainBadRequest, MainRead,
         MainRefuse, MainAccept, MainLose, MainReset
    <3> QED BY <3>1
  <2>4. CASE \/ MainCheck \/ MainEnterSelect \/ MainSelect \/ MainScanned
             \/ MainAcceptFails \/ MainDumped \/ MainFree \/ MainStop \/ MainJoin
             \/ MainFinalFree \/ \E p \in Paths : MainRollback(p)
    <3>1. mpc' \in {"presel", "stop", "select", "scan", "check", "destruct", "final",
                    "join", "reset"}
      BY <2>4 DEF MainCheck, MainEnterSelect, MainSelect, MainScanned, MainAcceptFails,
         MainDumped, MainFree, MainStop, MainJoin, MainFinalFree, MainRollback
    <3> QED BY <3>1
  <2> QED BY <1>5, <2>1, <2>2, <2>3, <2>4 DEF MainStep
<1> QED BY <1>1, <1>2, <1>3, <1>4, <1>5 DEF Next

\* A request moves on, or is answered; nothing happens to the other clients.
LEMMA RequestMoves ==
    ASSUME AnswerInv, Next, UNCHANGED <<cli, reqs, closed, down, seqnum>>,
           \A d \in Conns : OnWay(d)' = OnWay(d)
    PROVE  AnswerInv'
<1>1. Unraced' => Unraced
  BY UnracedBefore
<1>2. ASSUME NEW d \in Conns, Answered(d) PROVE Answered(d)'
  BY <1>2, SameAnswers
<1> QED BY <1>1, <1>2 DEF AnswerInv

LEMMA RequestAnswered ==
    ASSUME TypeOK, AnswerInv, Next, NEW c \in Conns, NEW ret, Unraced => sk[c] = "open",
           send_response(c, ret), UNCHANGED <<cli, reqs, closed>>,
           OnWay(c)' = OnWay(c) - 1, OnWay(c)' \in Nat,
           \A d \in Conns \ {c} : OnWay(d)' = OnWay(d)
    PROVE  AnswerInv'
<1> SUFFICES ASSUME Unraced PROVE \A d \in Conns : Answered(d)'
  BY UnracedBefore DEF AnswerInv
<1>1. ASSUME NEW d \in Conns \ {c} PROVE Answered(d)'
  <2>1. Answered(d)
    BY DEF AnswerInv
  <2>2. down'[d] = down[d] /\ seqnum'[d] = seqnum[d]
    BY ResponseReaches
  <2> QED BY <2>1, <2>2, SameAnswers
<1>2. Answered(c)'
  <2>1. Answered(c) /\ OnWay(c) \in Nat
    BY OnWayType DEF AnswerInv
  <2>2. OnWay(c) # 0
    BY <2>1
  <2> QED BY <2>1, <2>2, AnswerSent
<1> QED BY <1>1, <1>2

\* What process_client_req has done to the places of requests when it has
\* read one: that of c is taken from its socket.
LEMMA RequestRead ==
    ASSUME IInv, TableInv, NEW c \in Conns, NEW type, MainRead(c, type)
    PROVE  /\ sk[c] = "open" /\ mpc = "scan" /\ up[c] # NULL /\ up'[c] = NULL
           /\ \A d \in Conns \ {c} : up'[d] = up[d]
           /\ UNCHANGED <<cli, reqs, closed, wpc, item>>
<1>1. c \in incoming /\ mpc = "scan"
  BY PowerapidAssumption DEF MainRead, IInv, Places
<1>2. sk[c] = "open"
  BY <1>1 DEF TableInv, SocketsExist
<1> QED BY <1>1, <1>2 DEF MainRead, IInv, TypeOK, clientVars

LEMMA ReadAnswered ==
    ASSUME IInv, TableInv, AnswerInv, Next, NEW c \in Conns, NEW type, NEW ret,
           MainRead(c, type), send_response(c, ret), UNCHANGED <<mpc, cur, work_queue>>
    PROVE  AnswerInv'
<1>1. /\ sk[c] = "open" /\ mpc = "scan" /\ up[c] # NULL /\ up'[c] = NULL
      /\ \A d \in Conns \ {c} : up'[d] = up[d]
      /\ UNCHANGED <<cli, reqs, closed, wpc, item>>
  BY RequestRead
<1>2. TypeOK /\ Count(work_queue, c) \in Nat
  BY CountType DEF IInv, TypeOK
<1>3. OnWay(c)' = OnWay(c) - 1 /\ OnWay(c)' \in Nat
  BY <1>1, <1>2 DEF OnWay, WorkerInLists
<1>4. \A d \in Conns \ {c} : OnWay(d)' = OnWay(d)
  BY <1>1 DEF OnWay, WorkerInLists
<1> QED BY <1>1, <1>2, <1>3, <1>4, RequestAnswered

LEMMA SetAnswers ==
    ASSUME IInv, TableInv, AnswerInv, Next, NEW c \in Conns, MainSet(c)
    PROVE  AnswerInv'
<1>1. CASE ~ authed[c]
  BY <1>1, ReadAnswered DEF MainSet
<1>2. CASE authed[c]
  <2> DEFINE e == [own |-> c, path |-> up[c].path, val |-> up[c].val, ts |-> 0]
  <2>1. /\ mpc = "scan" /\ up[c] # NULL /\ up'[c] = NULL
        /\ \A d \in Conns \ {c} : up'[d] = up[d]
        /\ UNCHANGED <<cli, reqs, closed, wpc, item>>
    BY RequestRead DEF MainSet
  <2>2. /\ work_queue' = Append(work_queue, e) /\ e.own = c
        /\ UNCHANGED <<down, seqnum, mpc, cur>>
    BY <1>2 DEF MainSet
  <2> HIDE DEF e
  <2>3. work_queue \in Seq(Item)
    BY DEF IInv, TypeOK
  <2>4. \A d \in Conns : /\ Count(work_queue, d) \in Nat
                         /\ Count(work_queue', d)
                              = Count(work_queue, d) + (IF d = c THEN 1 ELSE 0)
    BY <2>2, <2>3, CountType, CountAppend
  <2>5. OnWay(c)' = OnWay(c)
    BY <2>1, <2>2, <2>4 DEF OnWay, WorkerInLists
  <2>6. \A d \in Conns \ {c} : OnWay(d)' = OnWay(d)
    BY <2>1, <2>2, <2>4 DEF OnWay, WorkerInLists
  <2> QED BY <2>1, <2>2, <2>5, <2>6, RequestMoves
<1> QED BY <1>1, <1>2

LEMMA DumpAnswers ==
    ASSUME IInv, TableInv, AnswerInv, Next, NEW c \in Conns, MainDump(c)
    PROVE  AnswerInv'
<1>1. CASE c \notin Root
  BY <1>1, ReadAnswered DEF MainDump
<1>2. CASE c \in Root
  <2>1. /\ mpc = "scan" /\ up[c] # NULL /\ up'[c] = NULL
        /\ \A d \in Conns \ {c} : up'[d] = up[d]
        /\ UNCHANGED <<cli, reqs, closed, wpc, item>>
    BY RequestRead DEF MainDump
  <2>2. mpc' = "dump" /\ cur' = c /\ UNCHANGED <<down, seqnum, work_queue>>
    BY <1>2 DEF MainDump
  <2>3. Count(work_queue, c) \in Nat
    BY CountType DEF IInv, TypeOK
  <2>4. OnWay(c)' = OnWay(c)
    BY <2>1, <2>2, <2>3 DEF OnWay, WorkerInLists
  <2>5. \A d \in Conns \ {c} : OnWay(d)' = OnWay(d)
    BY <2>1, <2>2 DEF OnWay, WorkerInLists
  <2> QED BY <2>1, <2>2, <2>4, <2>5, RequestMoves
<1> QED BY <1>1, <1>2

LEMMA DumpedAnswers ==
    ASSUME IInv, TableInv, AnswerInv, Next, MainDumped
    PROVE  AnswerInv'
<1>1. PICK c \in Conns : c = cur
  BY DEF MainDumped, IInv, Places, TypeOK
<1>2. /\ mpc = "dump" /\ mpc' = "scan" /\ send_response(c, "SUCCESS")
      /\ UNCHANGED <<cli, reqs, closed, up, wpc, item, work_queue>>
  BY <1>1 DEF MainDumped, clientVars, workVars
<1>3. sk[c] = "open"
  BY <1>1, <1>2 DEF IInv, Places, TableInv, SocketsExist
<1>4. TypeOK /\ Count(work_queue, c) \in Nat
  BY CountType DEF IInv, TypeOK
<1>5. OnWay(c)' = OnWay(c) - 1 /\ OnWay(c)' \in Nat
  BY <1>1, <1>2, <1>4 DEF OnWay, WorkerInLists
<1>6. \A d \in Conns \ {c} : OnWay(d)' = OnWay(d)
  BY <1>1, <1>2 DEF OnWay, WorkerInLists
<1> QED BY <1>2, <1>3, <1>4, <1>5, <1>6, RequestAnswered

LEMMA PopAnswers ==
    ASSUME IInv, AnswerInv, Next, WorkerPop PROVE AnswerInv'
<1>1. /\ wpc = "pop" /\ work_queue # <<>> /\ item' = work_queue[1]
      /\ work_queue' = Tail(work_queue) /\ work_queue \in Seq(Item)
      /\ wpc' = IF item'.own = NULL THEN "loop" ELSE "def"
      /\ UNCHANGED <<cli, reqs, closed, down, seqnum, up, mpc, cur>>
  BY DEF WorkerPop, IInv, TypeOK, clientVars, wireVars, mainVars
<1>2. ASSUME NEW d \in Conns PROVE OnWay(d)' = OnWay(d)
  <2>1. /\ Count(work_queue, d) \in Nat
        /\ Count(work_queue', d) = Count(work_queue, d) - (IF item'.own = d THEN 1 ELSE 0)
    BY <1>1, CountType, CountTail
  <2>2. d # NULL
    BY PowerapidAssumption
  <2> QED BY <1>1, <2>1, <2>2 DEF OnWay, WorkerInLists
<1> QED BY <1>1, <1>2, RequestMoves

LEMMA WorkerAnswers ==
    ASSUME IInv, TableInv, AnswerInv, Next, NEW ret, WorkerInLists, ~ WorkerInLists',
           send_response(item.own, ret),
           UNCHANGED <<cli, reqs, closed, up, mpc, cur, item, work_queue>>
    PROVE  AnswerInv'
<1>1. PICK c \in Conns : c = item.own
  BY DEF IInv, Places
<1>2. Unraced => sk[c] = "open"
  BY <1>1 DEF TableInv
<1>3. TypeOK /\ Count(work_queue, c) \in Nat
  BY CountType DEF IInv, TypeOK
<1>4. OnWay(c)' = OnWay(c) - 1 /\ OnWay(c)' \in Nat
  BY <1>1, <1>3 DEF OnWay
<1>5. \A d \in Conns \ {c} : OnWay(d)' = OnWay(d)
  BY <1>1 DEF OnWay
<1>6. send_response(c, ret)
  BY <1>1
<1> QED BY <1>2, <1>3, <1>4, <1>5, <1>6, RequestAnswered

LEMMA StopAnswers ==
    ASSUME IInv, AnswerInv, Next, MainStop PROVE AnswerInv'
<1>1. /\ mpc = "stop" /\ mpc' = "join" /\ work_queue' = Append(work_queue, StopItem)
      /\ work_queue \in Seq(Item) /\ StopItem.own = NULL
      /\ UNCHANGED <<cli, reqs, closed, down, seqnum, up, cur, wpc, item>>
  BY DEF MainStop, IInv, TypeOK, StopItem, clientVars, wireVars
<1>2. ASSUME NEW d \in Conns PROVE OnWay(d)' = OnWay(d)
  <2>1. d # NULL
    BY PowerapidAssumption
  <2>2. /\ Count(work_queue, d) \in Nat
        /\ Count(work_queue', d) = Count(work_queue, d) + (IF StopItem.own = d THEN 1 ELSE 0)
    BY <1>1, CountType, CountAppend
  <2> QED BY <1>1, <2>1, <2>2 DEF OnWay, WorkerInLists
<1> QED BY <1>1, <1>2, RequestMoves

\* A process that ends closes every connection; who has not connected has
\* asked for nothing.
LEMMA EndAnswers ==
    ASSUME IInv, AnswerInv, Next, NEW how \in {"exited", "dead"}, ProcessEnds(how)
    PROVE  AnswerInv'
<1>1. /\ UNCHANGED <<cli, reqs, down>> /\ work_queue' = <<>> /\ wpc' = "none"
      /\ mpc' = how
      /\ \A c \in Conns : /\ up'[c] = NULL /\ seqnum'[c] = 0
                          /\ closed'[c] = (closed[c] \/ cli[c] # "new")
  BY DEF ProcessEnds, clientVars
<1>2. TypeOK
  BY DEF IInv
<1> SUFFICES ASSUME Unraced, NEW c \in Conns, ~ closed'[c] PROVE Answered(c)'
  BY UnracedBefore DEF AnswerInv, Answered
<1>3. cli[c] = "new" /\ ~ closed[c] /\ Answered(c)
  BY <1>1 DEF AnswerInv
<1>4. OnWay(c) \in Nat /\ down[c] \in Seq(Response) /\ Len(down[c]) \in Nat
  <2>1. down[c] \in Seq(Response)
    BY <1>2 DEF TypeOK
  <2> QED BY <1>2, <2>1, OnWayType
<1>5. reqs[c] = 0 /\ OnWay(c) + Len(down[c]) = 0
  BY <1>3 DEF Answered
<1>6. Len(down[c]) = 0
  BY <1>4, <1>5
<1>7. DOMAIN down[c] = {}
  BY <1>4, <1>6
<1>8. Count(<<>>, c) = 0
  <2>1. {i \in DOMAIN <<>> : <<>>[i].own = c} = {}
    OBVIOUS
  <2> QED BY <2>1, FS_EmptySet DEF Count
<1>9. OnWay(c)' = 0
  BY <1>1, <1>8 DEF OnWay, WorkerInLists
<1> QED BY <1>1, <1>3, <1>5, <1>6, <1>7, <1>9 DEF Answered

LEMMA AnswerInit == Init => AnswerInv /\ NobodyWorks
<1> SUFFICES ASSUME Init PROVE AnswerInv /\ NobodyWorks
  OBVIOUS
<1>1. NobodyWorks
  BY DEF Init, NobodyWorks
<1>2. ASSUME NEW c \in Conns PROVE Answered(c)
  <2>1. /\ cli[c] = "new" /\ reqs[c] = 0 /\ up[c] = NULL /\ down[c] = <<>>
        /\ seqnum[c] = 0 /\ mpc = "boot" /\ wpc = "none" /\ work_queue = <<>>
    BY DEF Init
  <2>2. {i \in DOMAIN <<>> : <<>>[i].own = c} = {}
    OBVIOUS
  <2>3. Count(work_queue, c) = 0
    BY <2>1, <2>2, FS_EmptySet DEF Count
  <2>4. OnWay(c) = 0
    BY <2>1, <2>3 DEF OnWay, WorkerInLists
  <2>5. Len(down[c]) = 0 /\ DOMAIN down[c] = {}
    BY <2>1
  <2> QED BY <2>1, <2>4, <2>5 DEF Answered
<1> QED BY <1>1, <1>2 DEF AnswerInv

LEMMA AnswerStep ==
    IInv /\ TableInv /\ NobodyWorks /\ AnswerInv /\ [Next]_vars => AnswerInv'
<1> SUFFICES ASSUME IInv, TableInv, NobodyWorks, AnswerInv, [Next]_vars PROVE AnswerInv'
  OBVIOUS
<1> USE DEF clientVars, wireVars, mainVars, workVars
<1>1. CASE UNCHANGED vars
  BY <1>1 DEF vars, AnswerInv, Answered, OnWay, WorkerInLists, Unraced, Racing, Overlap,
     Dangling, MainInLists, sockVars, regVars
<1>2. CASE Next /\ ClientStep
  BY <1>2, ClientAnswers
<1>3. CASE Next /\ EnvStep
  <2>1. ASSUME NEW how \in {"exited", "dead"}, ProcessEnds(how) PROVE AnswerInv'
    BY <1>3, <2>1, EndAnswers
  <2>2. CASE Restart \/ AllowRestart \/ (Signal /\ mpc # "paused")
    <3>1. /\ UNCHANGED <<cli, reqs, seqnum, work_queue, closed, up, down, wpc, item, cur>>
          /\ mpc' = "dump" <=> mpc = "dump"
      BY <2>2 DEF Restart, AllowRestart, Signal
    <3> QED BY <1>3, <3>1, QuietAnswers DEF WorkerInLists
  <2>3. CASE Crash \/ Segv \/ (Signal /\ mpc = "paused")
    BY <2>1, <2>3 DEF Crash, Segv, Signal, Alive
  <2> QED BY <1>3, <2>2, <2>3 DEF EnvStep
<1>4. CASE Next /\ WorkerStep
  <2>1. CASE WorkerPop
    BY <1>4, <2>1, PopAnswers
  <2>2. CASE WorkerDefaultFails
    BY <1>4, <2>2, WorkerAnswers DEF WorkerDefaultFails, WorkerInLists
  <2>3. CASE WorkerApply
    <3>1. /\ \E ret : send_response(item.own, ret)
          /\ UNCHANGED <<cli, reqs, closed, up, mpc, cur, item, work_queue>>
          /\ WorkerInLists /\ ~ WorkerInLists'
      BY <2>3 DEF WorkerApply, WorkerInLists
    <3> QED BY <1>4, <3>1, WorkerAnswers
  <2>4. CASE WorkerLoop \/ WorkerDefaultKept \/ WorkerDefault \/ WorkerReplace
    <3>1. /\ UNCHANGED <<cli, reqs, seqnum, work_queue, closed, up, down, mpc, cur>>
          /\ (WorkerInLists' <=> WorkerInLists) /\ item'.own = item.own
      BY <2>4 DEF WorkerLoop, WorkerDefaultKept, WorkerDefault, WorkerReplace,
         WorkerInLists, IInv, TypeOK, Item
    <3> QED BY <1>4, <3>1, QuietAnswers
  <2> QED BY <1>4, <2>1, <2>2, <2>3, <2>4 DEF WorkerStep
<1>5. CASE Next /\ MainStep
  <2>1. CASE MainExit
    BY <1>5, <2>1, EndAnswers DEF MainExit
  <2>2. ASSUME NEW c \in Conns, MainAuth(c) \/ MainLogLevel(c) \/ MainBadRequest(c)
        PROVE  AnswerInv'
    <3>1. /\ \E type : MainRead(c, type)
          /\ \E ret : send_response(c, ret)
          /\ UNCHANGED <<mpc, cur, work_queue>>
      BY <2>2 DEF MainAuth, MainLogLevel, MainBadRequest
    <3> QED BY <1>5, <3>1, ReadAnswered
  <2>3. ASSUME NEW c \in Conns, MainSet(c) \/ MainDump(c) PROVE AnswerInv'
    BY <1>5, <2>3, SetAnswers, DumpAnswers
  <2>4. CASE MainDumped \/ MainStop
    BY <1>5, <2>4, DumpedAnswers, StopAnswers
  <2>5. ASSUME NEW c \in Conns, MainRefuse(c) PROVE AnswerInv'
    <3>1. /\ UNCHANGED <<cli, reqs, seqnum, work_queue, wpc, item, mpc, cur>>
          /\ \A d \in Conns : ~ closed'[d] =>
                ~ closed[d] /\ up'[d] = up[d] /\ down'[d] = down[d]
      BY <2>5 DEF MainRefuse, IInv, TypeOK
    <3> QED BY <1>5, <3>1, QuietAnswers DEF WorkerInLists
  <2>6. CASE MainFree \/ MainFinalFree
    <3>1. /\ UNCHANGED <<cli, reqs, seqnum, work_queue, wpc, item, down>>
          /\ mpc # "dump" /\ mpc' # "dump"
          /\ \A d \in Conns : ~ closed'[d] => ~ closed[d] /\ up'[d] = up[d]
      BY <2>6 DEF MainFree, MainFinalFree, IInv, TypeOK
    <3> QED BY <1>5, <3>1, QuietAnswers DEF WorkerInLists
  <2>7. CASE MainBoot
    <3>1. wpc = "none" /\ wpc' \in {"none", "loop"}
      BY <2>7 DEF MainBoot, NobodyWorks, Alive
    <3>2. /\ UNCHANGED <<cli, reqs, seqnum, work_queue, closed, up, down>>
          /\ mpc # "dump" /\ mpc' # "dump"
      BY <2>7 DEF MainBoot
    <3> QED BY <1>5, <3>1, <3>2, QuietAnswers DEF WorkerInLists
  <2>8. CASE \/ MainCheck \/ MainEnterSelect \/ MainSelect \/ MainScanned
             \/ MainAcceptFails \/ MainJoin \/ \E p \in Paths : MainRollback(p)
             \/ \E c \in Conns : MainAccept(c) \/ MainLose(c) \/ MainReset(c)
    <3>1. /\ UNCHANGED <<cli, reqs, seqnum, work_queue, closed, up, down, wpc, item>>
          /\ mpc # "dump" /\ mpc' # "dump"
      BY <2>8 DEF MainCheck, MainEnterSelect, MainSelect, MainScanned, MainAcceptFails,
         MainJoin, MainRollback, MainAccept, MainLose, MainReset
    <3> QED BY <1>5, <3>1, QuietAnswers DEF WorkerInLists
  <2> QED BY <1>5, <2>1, <2>2, <2>3, <2>4, <2>5, <2>6, <2>7, <2>8 DEF MainStep
<1> QED BY <1>1, <1>2, <1>3, <1>4, <1>5 DEF Next

LEMMA AnswerInvAlways == Spec => []AnswerInv
BY IInvAlways, TableInvAlways, AnswerInit, NobodyWorksStep, AnswerStep, PTL DEF Spec

\* Between the two threads no request is lost, answered twice or answered under
\* the number of another (process_client_req, worker_process_item,
\* send_response): for any number of clients and requests a waiting client has
\* exactly one request or answer on its way, as long as the threads have not
\* met in the tables.
THEOREM EachAlwaysAnswered == Spec => []OneAnswerEach
<1>1. IInv /\ AnswerInv => OneAnswerEach
  <2> SUFFICES ASSUME IInv, AnswerInv, Unraced, NEW c \in Conns, ~ closed[c]
               PROVE  /\ cli[c] = "waiting" => Pending(c) = 1
                      /\ cli[c] \in {"new", "idle"} => Pending(c) = 0
                      /\ \A i \in DOMAIN down[c] : /\ down[c][i].to = c
                                                   /\ down[c][i].seq = reqs[c] - 1
    BY DEF OneAnswerEach
  <2>1. Answered(c)
    BY DEF AnswerInv
  <2>2. Pending(c) = OnWay(c) + Len(down[c])
    BY DEF Pending, OnWay, Count
  <2> QED BY <2>1, <2>2 DEF Answered
<1> QED BY <1>1, IInvAlways, AnswerInvAlways, PTL

(***************************************************************************)
(* The arbiter.                                                            *)
(***************************************************************************)
\* Whoever has a request queued or in the worker's hands has said who he is.
AuthedInv ==
    /\ \A i \in DOMAIN work_queue :
          work_queue[i].own \in Conns => authed[work_queue[i].own]
    /\ WorkerInLists => authed[item.own]

\* The request about to be decided is in the tables.
Entered ==
    Unraced /\ wpc = "top" =>
        /\ my_changes[item.own][item.path] # NULL
        /\ my_changes[item.own][item.path].val = item.val

-----------------------------------------------------------------------------
(* The requests on their way                                               *)

\* A step that leaves the requests and the roles alone.
LEMMA QuietAuthed ==
    ASSUME AuthedInv, UNCHANGED <<work_queue, authed, item>>,
           WorkerInLists' => WorkerInLists
    PROVE  AuthedInv'
BY DEF AuthedInv

LEMMA SetAuthed ==
    ASSUME IInv, AuthedInv, NEW c \in Conns, MainSet(c) PROVE AuthedInv'
<1>1. /\ work_queue \in Seq(Item) /\ UNCHANGED <<authed, item, wpc>>
      /\ \/ UNCHANGED work_queue
         \/ /\ authed[c]
            /\ work_queue' = Append(work_queue,
                  [own |-> c, path |-> up[c].path, val |-> up[c].val, ts |-> 0])
  BY DEF IInv, TypeOK, MainSet, MainRead
<1>2. CASE UNCHANGED work_queue
  BY <1>1, <1>2, QuietAuthed DEF WorkerInLists
<1>3. CASE ~ UNCHANGED work_queue
  <2> DEFINE x == [own |-> c, path |-> up[c].path, val |-> up[c].val, ts |-> 0]
  <2>1. work_queue' = Append(work_queue, x) /\ authed[c] /\ x.own = c
    BY <1>1, <1>3
  <2> HIDE DEF x
  <2>2. \A i \in DOMAIN work_queue' :
           work_queue'[i] = x \/ (i \in DOMAIN work_queue /\ work_queue'[i] = work_queue[i])
    BY <1>1, <2>1
  <2> QED BY <1>1, <2>1, <2>2 DEF AuthedInv, WorkerInLists
<1> QED BY <1>2, <1>3

LEMMA AuthedStep == IInv /\ AuthedInv /\ [Next]_vars => AuthedInv'
<1> SUFFICES ASSUME IInv, AuthedInv, [Next]_vars PROVE AuthedInv'
  OBVIOUS
<1> USE DEF mainVars, sockVars, workVars
<1>1. CASE UNCHANGED vars
  BY <1>1 DEF vars, AuthedInv, WorkerInLists
<1>2. ASSUME NEW how, ProcessEnds(how) PROVE AuthedInv'
  BY <1>2 DEF ProcessEnds, AuthedInv, WorkerInLists
<1>3. CASE ClientStep
  <2>1. UNCHANGED <<work_queue, authed, item, wpc>>
    BY <1>3 DEF ClientStep, ClientConnect, ClientSend, ClientReceive, ClientEof, ClientClose
  <2> QED BY <2>1, QuietAuthed DEF WorkerInLists
<1>4. CASE EnvStep
  <2>1. CASE \E how : ProcessEnds(how)
    BY <1>2, <2>1
  <2>2. CASE UNCHANGED <<work_queue, authed, item, wpc>>
    BY <2>2, QuietAuthed DEF WorkerInLists
  <2> QED BY <1>4, <2>1, <2>2 DEF EnvStep, Signal, Crash, Segv, Restart, AllowRestart
<1>5. CASE WorkerStep
  <2>0. item \in Item /\ work_queue \in Seq(Item)
    BY DEF IInv, TypeOK
  <2>1. CASE WorkerPop
    <3>1. /\ UNCHANGED authed /\ wpc' = IF item'.own = NULL THEN "loop" ELSE "def"
          /\ work_queue # <<>> /\ item' = Head(work_queue)
          /\ work_queue' = Tail(work_queue)
      BY <2>1 DEF WorkerPop
    <3>2. 1 \in DOMAIN work_queue /\ item' = work_queue[1] /\ item' \in Item
      BY <2>0, <3>1
    <3>3. \A i \in DOMAIN work_queue' :
             i + 1 \in DOMAIN work_queue /\ work_queue'[i] = work_queue[i + 1]
      BY <2>0, <3>1
    <3>4. item'.own \in Conns \cup {NULL}
      BY <3>2 DEF Item
    <3> QED BY <3>1, <3>2, <3>3, <3>4 DEF AuthedInv, WorkerInLists
  <2>2. CASE WorkerReplace
    <3>1. UNCHANGED <<work_queue, authed>> /\ item'.own = item.own /\ wpc = "old"
      <4>1. PICK t : item' = [item EXCEPT !.ts = t]
        BY <2>2 DEF WorkerReplace
      <4>2. UNCHANGED <<work_queue, authed>> /\ wpc = "old"
        BY <2>2 DEF WorkerReplace
      <4> QED BY <2>0, <4>1, <4>2 DEF Item
    <3> QED BY <3>1 DEF AuthedInv, WorkerInLists
  <2>3. CASE WorkerLoop \/ WorkerDefaultKept \/ WorkerDefault \/ WorkerDefaultFails
             \/ WorkerApply
    <3>1. UNCHANGED <<work_queue, authed, item>> /\ (WorkerInLists' => WorkerInLists)
      BY <2>3 DEF WorkerLoop, WorkerDefaultKept, WorkerDefault, WorkerDefaultFails,
         WorkerApply, WorkerInLists
    <3> QED BY <3>1, QuietAuthed
  <2> QED BY <1>5, <2>1, <2>2, <2>3 DEF WorkerStep
<1>6. CASE MainStep
  <2>1. CASE MainExit
    BY <1>2, <2>1 DEF MainExit
  <2>2. CASE \E c \in Conns : MainSet(c)
    BY <2>2, SetAuthed
  <2>3. ASSUME NEW c \in Conns, MainAuth(c) PROVE AuthedInv'
    <3>1. /\ UNCHANGED <<work_queue, item, wpc>> /\ authed' = [authed EXCEPT ![c] = TRUE]
          /\ authed \in [Conns -> BOOLEAN]
      BY <2>3 DEF MainAuth, MainRead, IInv, TypeOK
    <3> QED BY <3>1 DEF AuthedInv, WorkerInLists, IInv, Places
  <2>4. CASE MainStop
    <3>1. UNCHANGED <<item, wpc, authed>> /\ work_queue' = Append(work_queue, StopItem)
      BY <2>4 DEF MainStop
    <3>2. work_queue \in Seq(Item) /\ StopItem.own \notin Conns
      BY PowerapidAssumption DEF IInv, TypeOK, StopItem
    <3>3. \A i \in DOMAIN work_queue' :
             \/ work_queue'[i] = StopItem
             \/ i \in DOMAIN work_queue /\ work_queue'[i] = work_queue[i]
      BY <3>1, <3>2
    <3> QED BY <3>1, <3>2, <3>3 DEF AuthedInv, WorkerInLists
  <2>5. CASE MainBoot
    <3>1. UNCHANGED <<work_queue, authed, item>> /\ (WorkerInLists' => WorkerInLists)
      BY <2>5 DEF MainBoot, WorkerInLists
    <3> QED BY <3>1, QuietAuthed
  <2>6. CASE ~ MainExit /\ ~ MainBoot /\ ~ MainStop
             /\ ~ \E c \in Conns : MainSet(c) \/ MainAuth(c)
    <3>1. UNCHANGED <<work_queue, authed, item, wpc>>
      BY <1>6, <2>6 DEF MainStep, MainCheck, MainEnterSelect, MainSelect,
         MainScanned, MainRefuse, MainAccept, MainAcceptFails,
         MainLogLevel, MainDump, MainBadRequest, MainRead, MainDumped, MainLose,
         MainRollback, MainFree, MainJoin, MainReset, MainFinalFree
    <3> QED BY <3>1, QuietAuthed DEF WorkerInLists
  <2> QED BY <2>1, <2>2, <2>3, <2>4, <2>5, <2>6
<1> QED BY <1>1, <1>3, <1>4, <1>5, <1>6 DEF Next

\* A step that leaves the tables alone and does not get to "top".
LEMMA QuietEntered ==
    ASSUME Entered, Next, UNCHANGED my_changes,
           wpc' = "top" => wpc = "top" /\ UNCHANGED item
    PROVE  Entered'
BY UnracedBefore DEF Entered

LEMMA EnteredStep == IInv /\ Joined /\ Entered /\ [Next]_vars => Entered'
<1> SUFFICES ASSUME IInv, Joined, Entered, [Next]_vars PROVE Entered'
  OBVIOUS
<1> USE DEF mainVars, sockVars, workVars, regVars
<1>1. CASE UNCHANGED vars
  BY <1>1 DEF vars, Entered, Unraced, Racing, Overlap, Dangling, WorkerInLists, MainInLists
<1>2. ASSUME NEW how, ProcessEnds(how) PROVE Entered'
  BY <1>2 DEF ProcessEnds, Entered
<1>3. CASE Next /\ ClientStep
  <2>1. UNCHANGED <<my_changes, item, wpc>>
    BY <1>3 DEF ClientStep, ClientConnect, ClientSend, ClientReceive, ClientEof, ClientClose
  <2> QED BY <1>3, <2>1, QuietEntered
<1>4. CASE Next /\ EnvStep
  <2>1. CASE \E how : ProcessEnds(how)
    BY <1>2, <2>1
  <2>2. CASE UNCHANGED <<my_changes, item, wpc>>
    BY <1>4, <2>2, QuietEntered
  <2> QED BY <1>4, <2>1, <2>2 DEF EnvStep, Signal, Crash, Segv, Restart, AllowRestart
<1>5. CASE Next /\ WorkerStep
  <2>1. CASE WorkerReplace
    <3>0. /\ item \in Item /\ item.path \in Paths /\ item.own \in Conns
          /\ my_changes \in [Conns -> [Paths -> Entry \cup {NULL}]]
      BY <2>1 DEF IInv, TypeOK, Places, WorkerInLists, WorkerReplace, Item
    <3>1. PICK t \in Tick(item.path) :
             LET e == [own |-> item.own, val |-> item.val,
                       ts  |-> IF Attr[item.path] = "GOV" THEN t ELSE 0]
             IN  /\ item' = [item EXCEPT !.ts = e.ts]
                 /\ my_changes' = [my_changes EXCEPT ![item.own][item.path] = e]
      BY <2>1 DEF WorkerReplace
    <3> DEFINE e == [own |-> item.own, val |-> item.val,
                     ts  |-> IF Attr[item.path] = "GOV" THEN t ELSE 0]
    <3>2. e \in Entry /\ e.val = item.val
      BY <3>0, TickType DEF IInv, Entry, Item
    <3>3. item'.own = item.own /\ item'.path = item.path /\ item'.val = item.val
      BY <3>0, <3>1 DEF Item
    <3>4. my_changes'[item.own][item.path] = e
      BY <3>0, <3>1
    <3>5. my_changes'[item'.own][item'.path] = e
      BY <3>3, <3>4
    <3> HIDE DEF e
    <3> QED BY <3>2, <3>3, <3>5, EntryFacts DEF Entered
  <2>2. CASE WorkerLoop \/ WorkerPop \/ WorkerDefaultKept \/ WorkerDefault
             \/ WorkerDefaultFails \/ WorkerApply
    <3>1. UNCHANGED my_changes /\ wpc' # "top"
      BY <2>2 DEF WorkerLoop, WorkerPop, WorkerDefaultKept, WorkerDefault,
         WorkerDefaultFails, WorkerApply
    <3> QED BY <1>5, <3>1, QuietEntered
  <2> QED BY <1>5, <2>1, <2>2 DEF WorkerStep
<1>6. CASE Next /\ MainStep
  <2>1. CASE MainExit
    BY <1>2, <2>1 DEF MainExit
  <2>2. ASSUME NEW p \in Paths, MainRollback(p) PROVE Entered'
    <3>1. Unraced => wpc # "top"
      BY <2>2 DEF MainRollback, Unraced, Racing, Overlap, WorkerInLists, MainInLists, Joined
    <3>2. UNCHANGED wpc
      BY <2>2 DEF MainRollback
    <3> QED BY <1>6, <3>1, <3>2, UnracedBefore DEF Entered
  <2>3. CASE MainBoot
    <3>1. UNCHANGED my_changes /\ (wpc' = "top" => wpc = "top") /\ UNCHANGED item
      BY <2>3 DEF MainBoot
    <3> QED BY <1>6, <3>1, QuietEntered
  <2>4. CASE ~ MainExit /\ ~ MainBoot /\ ~ \E p \in Paths : MainRollback(p)
    <3>1. UNCHANGED <<my_changes, item, wpc>>
      BY <1>6, <2>4 DEF MainStep, MainCheck, MainEnterSelect, MainSelect,
         MainScanned, MainRefuse, MainAccept, MainAcceptFails, MainAuth, MainSet,
         MainLogLevel, MainDump, MainBadRequest, MainRead, MainDumped, MainLose,
         MainFree, MainStop, MainJoin, MainReset, MainFinalFree
    <3> QED BY <1>6, <3>1, QuietEntered
  <2> QED BY <2>1, <2>2, <2>3, <2>4
<1> QED BY <1>1, <1>3, <1>4, <1>5, <1>6 DEF Next
-----------------------------------------------------------------------------
(* The head of a list is the value the arbiter chooses                     *)

\* The rule of the arbiter is the one by which the lists are sorted.
LEMMA SameOrder ==
    ASSUME NEW p \in Limits, NEW v \in Int, NEW w \in Int
    PROVE  Arb!Stronger(p, w, v) <=> ~ Stronger(Attr[p], v, w)
BY DEF Arb!Stronger, Stronger, Limits

\* The strongest of a set is the only one that nothing is stronger than.
LEMMA StrongestIs ==
    ASSUME NEW p \in Limits, NEW S \in SUBSET Int, NEW v \in S,
           \A w \in S : Stronger(Attr[p], v, w)
    PROVE  Arb!Strongest(p, S) = v
<1>1. \A w \in S : ~ Arb!Stronger(p, w, v)
  BY SameOrder
<1>2. \A x \in S : (\A w \in S : ~ Arb!Stronger(p, w, x)) => x = v
  BY <1>1 DEF Arb!Stronger
<1> QED BY <1>1, <1>2 DEF Arb!Strongest

\* What the tables hold for p is what its list holds.
LEMMA ValuesInForce ==
    ASSUME TypeOK, TableInv, Unraced, NEW p \in Limits, NEW v
    PROVE  v \in Arb!InForce(p, baseBar, forceBar)
              <=> \E i \in DOMAIN all_changes[p] : v = all_changes[p][i].val
<1> DEFINE l == all_changes[p]
           f == InForce(p)
<1>0. p \in Paths /\ NULL \notin Conns
  BY PowerapidAssumption DEF Limits
<1>1. /\ l \in Seq(Entry) /\ f \in [Owner -> Entry \cup {NULL}] /\ Represents(l, f)
      /\ f[NULL] = def_values[p] /\ \A c \in Conns : f[c] = my_changes[c][p]
  BY <1>0, InForceType DEF TableInv
<1>2. /\ baseBar[p] = ValueIn(f[NULL])
      /\ \A c \in Conns : forceBar[c][p] = ValueIn(f[c])
  BY <1>1 DEF baseBar, forceBar
<1> HIDE DEF l, f
<1>3. ASSUME NEW i \in DOMAIN l, v = l[i].val PROVE v \in Arb!InForce(p, baseBar, forceBar)
  <2>1. l[i] \in Entry /\ f[l[i].own] = l[i] /\ l[i].own \in Owner /\ l[i] # NULL
    BY <1>1, EntryFacts DEF Represents
  <2>2. v \in Values /\ ValueIn(f[l[i].own]) = v
    BY <1>3, <2>1, ValuesAreInts DEF ValueIn
  <2> QED BY <1>2, <2>1, <2>2 DEF Arb!InForce, Owner
<1>4. ASSUME v \in Arb!InForce(p, baseBar, forceBar) PROVE \E i \in DOMAIN l : v = l[i].val
  <2>1. PICK o \in Owner : ValueIn(f[o]) = v /\ v \in Values
    BY <1>2, <1>4 DEF Arb!InForce, Owner
  <2>2. f[o] # NULL /\ v = f[o].val
    BY <2>1, NullIsNoValue DEF ValueIn
  <2>3. PICK i \in DOMAIN l : l[i].own = o
    BY <1>1, <2>2 DEF Represents, Holds
  <2>4. f[o] = l[i]
    BY <1>1, <2>3 DEF Represents
  <2> QED BY <2>2, <2>4
<1> QED BY <1>3, <1>4 DEF l

LEMMA HeadIsStrongest ==
    ASSUME TypeOK, TableInv, SortInv, Unraced, NEW p \in Limits, all_changes[p] # <<>>
    PROVE  /\ all_changes[p][1] \in Entry
           /\ Arb!Strongest(p, Arb!InForce(p, baseBar, forceBar)) = all_changes[p][1].val
<1> DEFINE l == all_changes[p]
           S == Arb!InForce(p, baseBar, forceBar)
<1>0. p \in Paths /\ Attr[p] # "GOV" /\ Attr[p] \in AttrNames
  BY PowerapidAssumption DEF Limits
<1>1. l \in Seq(Entry) /\ 1 \in DOMAIN l
  BY <1>0 DEF TypeOK
<1>2. l[1] \in Entry
  BY <1>1
<1>3. SortedList(Attr[p], l)
  BY <1>0 DEF SortInv, Ordered
<1>4. \A i \in DOMAIN l : Stronger(Attr[p], l[1].val, l[i].val)
  BY <1>0, <1>1, <1>3, HeadCovers
<1>5. S \in SUBSET Int
  BY PowerapidAssumption DEF Arb!InForce
<1>6. \A v : v \in S <=> \E i \in DOMAIN l : v = l[i].val
  BY ValuesInForce
<1> HIDE DEF l, S
<1>7. l[1].val \in S /\ \A w \in S : Stronger(Attr[p], l[1].val, w)
  BY <1>1, <1>4, <1>6
<1>8. Arb!Strongest(p, S) = l[1].val
  BY <1>5, <1>7, StrongestIs
<1> QED BY <1>2, <1>8 DEF l, S
-----------------------------------------------------------------------------
(* The steps                                                               *)

\* A step of the arbiter or a stutter.
ArbStep == Arb!Next \/ UNCHANGED Arb!vars

LEMMA Stutters ==
    ASSUME Unraced, Unraced',
           UNCHANGED <<baseBar, forceBar, settingBar, failedBar, decidingBar>>
    PROVE  ArbStep
BY DEF ArbStep, Arb!vars

\* What one entry of a table, or of the files, does to the arbiter's state.
LEMMA DefaultChanges ==
    ASSUME TypeOK, NEW p \in Paths, NEW e, def_values' = [def_values EXCEPT ![p] = e]
    PROVE  baseBar' = IF p \in Limits THEN [baseBar EXCEPT ![p] = ValueIn(e)] ELSE baseBar
BY DEF TypeOK, baseBar, Limits

LEMMA RequestChanges ==
    ASSUME TypeOK, NEW c \in Conns, NEW p \in Paths, NEW e,
           my_changes' = [my_changes EXCEPT ![c][p] = e]
    PROVE  forceBar' = IF p \in Limits
                       THEN [forceBar EXCEPT ![c][p] = ValueIn(e)] ELSE forceBar
BY DEF TypeOK, forceBar, Limits

LEMMA WriteChanges ==
    ASSUME TypeOK, NEW p \in Paths, NEW v, NEW ok \in BOOLEAN, write_attr_value(p, v, ok)
    PROVE  /\ p \in Limits => Arb!Write(p, v)
           /\ p \notin Limits => UNCHANGED <<settingBar, failedBar>>
<1>1. file \in [Paths -> Values]
  BY DEF TypeOK
<1>2. CASE ok
  <2>1. file' = [file EXCEPT ![p] = v] /\ unwritten' = unwritten \ {p}
    BY <1>2 DEF write_attr_value
  <2>2. settingBar' = IF p \in Limits THEN [settingBar EXCEPT ![p] = v] ELSE settingBar
    BY <1>1, <2>1 DEF settingBar, Limits
  <2>3. failedBar' = IF p \in Limits THEN failedBar \ {p} ELSE failedBar
    BY <2>1 DEF failedBar
  <2> QED BY <2>2, <2>3 DEF Arb!Write
<1>3. CASE ~ ok
  <2>1. Faults /\ UNCHANGED file /\ unwritten' = unwritten \cup {p}
    BY <1>3 DEF write_attr_value
  <2>2. UNCHANGED settingBar
    BY <2>1 DEF settingBar
  <2>3. failedBar' = IF p \in Limits THEN failedBar \cup {p} ELSE failedBar
    BY <2>1 DEF failedBar
  <2> QED BY <2>1, <2>2, <2>3 DEF Arb!Write
<1> QED BY <1>2, <1>3

\* The request in hand, as the arbiter sees it.
LEMMA InHandIs ==
    ASSUME TypeOK, WorkerInLists, item.own \in Conns
    PROVE  /\ item.path \in Limits =>
                /\ decidingBar # NULL /\ decidingBar.own = item.own
                /\ decidingBar.path = item.path /\ decidingBar.val = item.val
           /\ item.path \notin Limits => decidingBar = NULL
<1>1. item.path \in Paths /\ item.val \in Values
  BY DEF TypeOK, Item
<1>2. [own |-> item.own, path |-> item.path, val |-> item.val]
         \in [own : Conns, path : Paths, val : Values]
  BY <1>1
<1> QED BY <1>2, NullIsNoValue DEF decidingBar

LEMMA PopSimulated ==
    ASSUME IInv, Unraced, Unraced', WorkerPop PROVE ArbStep
<1>1. /\ UNCHANGED <<def_values, my_changes, file, unwritten>>
      /\ wpc = "pop" /\ wpc' = IF item'.own = NULL THEN "loop" ELSE "def"
      /\ item' = Head(work_queue) /\ work_queue # <<>> /\ work_queue \in Seq(Item)
  BY DEF WorkerPop, regVars, fileVars, IInv, TypeOK
<1>2. UNCHANGED <<baseBar, forceBar, settingBar, failedBar>> /\ decidingBar = NULL
  BY <1>1 DEF baseBar, forceBar, settingBar, failedBar, decidingBar, WorkerInLists
<1>3. item' \in Item
  BY <1>1
<1>4. item'.own \in Conns \cup {NULL} /\ item'.val \in Values
  BY <1>3 DEF Item
<1>5. CASE item'.own = NULL \/ item'.path \notin Limits
  <2>1. decidingBar' = NULL
    BY <1>1, <1>5 DEF decidingBar, WorkerInLists
  <2> QED BY <1>2, <2>1, Stutters
<1>6. CASE item'.own # NULL /\ item'.path \in Limits
  <2>1. decidingBar' = [own |-> item'.own, path |-> item'.path, val |-> item'.val]
    BY <1>1, <1>6 DEF decidingBar, WorkerInLists
  <2>2. Arb!Take(item'.own, item'.path, item'.val)
    BY <1>2, <2>1 DEF Arb!Take
  <2>3. Arb!Next
    BY <1>4, <1>6, <2>2 DEF Arb!Next
  <2> QED BY <2>3 DEF ArbStep
<1> QED BY <1>5, <1>6

LEMMA DefaultSimulated ==
    ASSUME IInv, AuthedInv, Unraced, Unraced', WorkerDefault PROVE ArbStep
<1> DEFINE p == item.path
           persist == is_persistent(item.own)
<1>0. TypeOK /\ p \in Paths /\ item.own \in Conns /\ WorkerInLists /\ item.val \in Values
  BY DEF IInv, TypeOK, Places, Item, WorkerInLists, WorkerDefault
<1>1. PICK e \in Entry : /\ e.val = IF persist THEN item.val ELSE file[p]
                         /\ def_values' = [def_values EXCEPT ![p] = e]
  <2>1. PICK t \in Tick(p) :
           def_values' = [def_values EXCEPT ![p] =
               [own |-> NULL, val |-> IF persist THEN item.val ELSE file[p],
                ts  |-> IF Attr[p] = "GOV" THEN t ELSE 0]]
    BY DEF WorkerDefault, read_attr_value
  <2>2. t \in Nat /\ file[p] \in Values
    BY <1>0, TickType DEF TypeOK
  <2>3. [own |-> NULL, val |-> IF persist THEN item.val ELSE file[p],
         ts  |-> IF Attr[p] = "GOV" THEN t ELSE 0] \in Entry
    BY <1>0, <2>2 DEF Entry
  <2> QED BY <2>1, <2>3
<1>2. /\ UNCHANGED <<my_changes, file, unwritten, item>>
      /\ wpc = "def" /\ wpc' = "old"
      /\ def_values[p] = NULL \/ persist
  BY DEF WorkerDefault
<1>3. UNCHANGED <<forceBar, settingBar, failedBar, decidingBar>>
  BY <1>2 DEF forceBar, settingBar, failedBar, decidingBar, WorkerInLists
<1>4. persist <=> item.own \in Root \cap ResourceManager
  BY <1>0 DEF is_persistent, AuthedInv
<1>5. ValueIn(e) = e.val
  BY EntryFacts DEF ValueIn
<1>6. baseBar' = IF p \in Limits THEN [baseBar EXCEPT ![p] = e.val] ELSE baseBar
  BY <1>0, <1>1, <1>5, DefaultChanges
<1> HIDE DEF persist
<1>7. CASE p \notin Limits
  BY <1>3, <1>6, <1>7, Stutters
<1>8. CASE p \in Limits
  <2>1. /\ decidingBar # NULL /\ decidingBar.own = item.own
        /\ decidingBar.path = p /\ decidingBar.val = item.val
    BY <1>0, <1>8, InHandIs
  <2>2. settingBar[p] = file[p] /\ (~ persist => baseBar[p] = NULL)
    BY <1>2, <1>8 DEF settingBar, baseBar, ValueIn
  <2>3. Arb!Note(decidingBar)
    <3>1. CASE persist
      <4>1. baseBar' = [baseBar EXCEPT ![decidingBar.path] = decidingBar.val]
        BY <1>1, <1>6, <1>8, <2>1, <3>1
      <4> QED BY <1>3, <1>4, <2>1, <3>1, <4>1 DEF Arb!Note
    <3>2. CASE ~ persist
      <4>1. baseBar' = [baseBar EXCEPT ![decidingBar.path] = settingBar[decidingBar.path]]
        BY <1>1, <1>6, <1>8, <2>1, <2>2, <3>2
      <4> QED BY <1>3, <1>4, <2>1, <2>2, <3>2, <4>1 DEF Arb!Note
    <3> QED BY <3>1, <3>2
  <2>4. Arb!Next
    BY <2>1, <2>3 DEF Arb!Next
  <2> QED BY <2>4 DEF ArbStep
<1> QED BY <1>7, <1>8

LEMMA FailSimulated ==
    ASSUME IInv, Unraced, Unraced', WorkerDefaultFails PROVE ArbStep
<1>0. TypeOK /\ item.own \in Conns /\ WorkerInLists
  BY DEF IInv, Places, WorkerInLists, WorkerDefaultFails
<1>1. /\ UNCHANGED <<def_values, my_changes, file, unwritten, item>>
      /\ Faults /\ wpc' = "loop" /\ def_values[item.path] = NULL
  BY DEF WorkerDefaultFails, regVars, fileVars
<1>2. UNCHANGED <<baseBar, forceBar, settingBar, failedBar>> /\ decidingBar' = NULL
  BY <1>1 DEF baseBar, forceBar, settingBar, failedBar, decidingBar, WorkerInLists
<1>3. CASE item.path \notin Limits
  BY <1>0, <1>2, <1>3, InHandIs, Stutters
<1>4. CASE item.path \in Limits
  <2>1. decidingBar # NULL /\ decidingBar.path = item.path
    BY <1>0, <1>4, InHandIs
  <2>2. baseBar[item.path] = NULL
    BY <1>1, <1>4 DEF baseBar, ValueIn
  <2>3. Arb!TurnDown(decidingBar)
    BY <1>1, <1>2, <2>1, <2>2 DEF Arb!TurnDown
  <2> QED BY <2>1, <2>3 DEF Arb!Next, ArbStep
<1> QED BY <1>3, <1>4

LEMMA ReplaceSimulated ==
    ASSUME IInv, TableInv, Unraced, Unraced', WorkerReplace PROVE ArbStep
<1>p. PICK p \in Paths : p = item.path
  BY DEF IInv, TypeOK, Item
<1>c. PICK c \in Conns : c = item.own
  BY DEF IInv, Places, WorkerInLists, WorkerReplace
<1>0. TypeOK /\ WorkerInLists /\ item \in Item
  BY DEF IInv, TypeOK, WorkerInLists, WorkerReplace
<1>1. PICK t \in Tick(p) :
         LET e == [own |-> c, val |-> item.val, ts |-> IF Attr[p] = "GOV" THEN t ELSE 0]
         IN  /\ item' = [item EXCEPT !.ts = e.ts]
             /\ my_changes' = [my_changes EXCEPT ![c][p] = e]
  BY <1>p, <1>c DEF WorkerReplace
<1> DEFINE e == [own |-> c, val |-> item.val, ts |-> IF Attr[p] = "GOV" THEN t ELSE 0]
<1>2. e \in Entry /\ e.val = item.val
  BY <1>0, TickType DEF Entry, Item
<1>3. /\ item'.own = item.own /\ item'.path = item.path /\ item'.val = item.val
      /\ my_changes' = [my_changes EXCEPT ![c][p] = e]
  BY <1>0, <1>1 DEF Item
<1> HIDE DEF e
<1>4. /\ UNCHANGED <<def_values, file, unwritten>> /\ wpc = "old" /\ wpc' = "top"
  BY DEF WorkerReplace
<1>5. UNCHANGED <<baseBar, settingBar, failedBar, decidingBar>>
  BY <1>3, <1>4 DEF baseBar, settingBar, failedBar, decidingBar, WorkerInLists
<1>6. forceBar' = IF p \in Limits THEN [forceBar EXCEPT ![c][p] = item.val] ELSE forceBar
  <2>1. ValueIn(e) = item.val
    BY <1>2, EntryFacts DEF ValueIn
  <2>2. forceBar' = IF p \in Limits THEN [forceBar EXCEPT ![c][p] = ValueIn(e)]
                    ELSE forceBar
    BY <1>0, <1>3, RequestChanges
  <2> QED BY <2>1, <2>2
<1>7. CASE p \notin Limits
  BY <1>5, <1>6, <1>7, Stutters
<1>8. CASE p \in Limits
  <2>1. /\ decidingBar # NULL /\ decidingBar.own = c
        /\ decidingBar.path = p /\ decidingBar.val = item.val
    BY <1>p, <1>c, <1>0, <1>8, InHandIs
  <2>2. baseBar[p] # NULL
    <3>1. def_values[p] # NULL /\ def_values[p] \in Entry
      BY <1>p, <1>0, <1>4 DEF TableInv, TypeOK
    <3>2. def_values[p].val # NULL
      BY <3>1, ValuesAreInts, NullIsNoValue
    <3> QED BY <1>8, <3>1, <3>2 DEF baseBar, ValueIn
  <2>3. Arb!Enter(decidingBar)
    BY <1>5, <1>6, <1>8, <2>1, <2>2 DEF Arb!Enter
  <2> QED BY <2>1, <2>3 DEF Arb!Next, ArbStep
<1> QED BY <1>7, <1>8

LEMMA ApplySimulated ==
    ASSUME IInv, TableInv, SortInv, Entered, Unraced, Unraced', WorkerApply PROVE ArbStep
<1>p. PICK p \in Paths : p = item.path
  BY DEF IInv, TypeOK, Item
<1>c. PICK c \in Conns : c = item.own
  BY DEF IInv, Places, WorkerInLists, WorkerApply
<1> DEFINE l == all_changes[p]
<1>0. TypeOK /\ WorkerInLists /\ item.val \in Values /\ item.val \in Int /\ Attr[p] \in AttrNames
  BY PowerapidAssumption DEF IInv, TypeOK, Item, WorkerInLists, WorkerApply
<1>1. /\ wpc = "top" /\ wpc' = "loop" /\ l # <<>>
      /\ UNCHANGED <<def_values, my_changes>>
      /\ IF attr_value_comp(Attr[p], item, l[1]) = 0
         THEN \E ok \in BOOLEAN : write_attr_value(p, item.val, ok)
         ELSE UNCHANGED <<file, unwritten>>
  BY <1>p DEF WorkerApply, regVars, fileVars
<1>2. UNCHANGED <<baseBar, forceBar>> /\ decidingBar' = NULL
  BY <1>1 DEF baseBar, forceBar, decidingBar, WorkerInLists
<1>3. CASE p \notin Limits
  <2>1. UNCHANGED <<settingBar, failedBar>>
    BY <1>0, <1>1, <1>3, WriteChanges DEF settingBar, failedBar
  <2>2. decidingBar = NULL
    BY <1>p, <1>c, <1>0, <1>3, InHandIs
  <2> QED BY <1>2, <2>1, <2>2, Stutters
<1>4. CASE p \in Limits
  <2>1. /\ decidingBar # NULL /\ decidingBar.own = c
        /\ decidingBar.path = p /\ decidingBar.val = item.val
    BY <1>p, <1>c, <1>0, <1>4, InHandIs
  <2>2. forceBar[c][p] = item.val
    BY <1>p, <1>c, <1>1, <1>4 DEF Entered, forceBar, ValueIn
  <2>3. /\ l[1] \in Entry
        /\ Arb!Strongest(p, Arb!InForce(p, baseBar, forceBar)) = l[1].val
    BY <1>0, <1>1, <1>4, HeadIsStrongest
  <2>4. attr_value_comp(Attr[p], item, l[1]) = 0 <=> item.val = l[1].val
    BY <1>0, <2>3, ValuesAreInts, EqualValues
  <2>5. IF item.val = Arb!Strongest(p, Arb!InForce(p, baseBar, forceBar))
        THEN Arb!Write(p, item.val)
        ELSE UNCHANGED <<settingBar, failedBar>>
    <3>1. CASE item.val = l[1].val
      <4>1. Arb!Write(p, item.val)
        BY <1>0, <1>1, <1>4, <2>4, <3>1, WriteChanges
      <4> QED BY <2>3, <3>1, <4>1
    <3>2. CASE item.val # l[1].val
      <4>1. UNCHANGED <<settingBar, failedBar>>
        BY <1>1, <2>4, <3>2 DEF settingBar, failedBar
      <4> QED BY <2>3, <3>2, <4>1
    <3> QED BY <3>1, <3>2
  <2>6. Arb!Decide(decidingBar)
    BY <1>2, <2>1, <2>2, <2>5 DEF Arb!Decide
  <2> QED BY <2>1, <2>6 DEF Arb!Next, ArbStep
<1> QED BY <1>3, <1>4

\* HeadIsStrongest in the state after a step.
ChosenByHead(p) ==
    all_changes[p] # <<>> =>
        /\ all_changes[p][1] \in Entry
        /\ Arb!Strongest(p, Arb!InForce(p, baseBar, forceBar)) = all_changes[p][1].val

LEMMA HeadChosen ==
    TypeOK /\ TableInv /\ SortInv /\ Unraced => \A p \in Limits : ChosenByHead(p)
BY HeadIsStrongest DEF ChosenByHead

LEMMA HeadChosenNext ==
    (TypeOK /\ TableInv /\ SortInv /\ Unraced => \A p \in Limits : ChosenByHead(p))'
BY HeadChosen, PTL

LEMMA RollbackSimulated ==
    ASSUME IInv, TypeOK', TableInv', SortInv', Unraced, Unraced',
           NEW p \in Paths, MainRollback(p)
    PROVE  ArbStep
<1>c. PICK c \in Conns : c = cur
  BY DEF IInv, TypeOK, Places, MainRollback
<1> DEFINE gone == my_changes[c][p]
           l == all_changes'[p]
<1>0. /\ TypeOK /\ all_changes \in [Paths -> Seq(Entry)] /\ Attr[p] \in AttrNames
      /\ my_changes \in [Conns -> [Paths -> Entry \cup {NULL}]]
  BY PowerapidAssumption DEF IInv, TypeOK
<1>1. /\ gone # NULL /\ UNCHANGED <<def_values, wpc, item>>
      /\ my_changes' = [my_changes EXCEPT ![c][p] = NULL]
      /\ l # <<>> /\ RestoreHead(p, gone, l)
  BY <1>c, <1>0 DEF MainRollback, Updates, Unraced, workVars
<1>2. gone \in Entry
  BY <1>0, <1>1
<1> HIDE DEF gone, l
<1>3. UNCHANGED <<baseBar, decidingBar>>
  BY <1>1 DEF baseBar, decidingBar, WorkerInLists
<1>4. forceBar' = IF p \in Limits THEN [forceBar EXCEPT ![c][p] = NULL] ELSE forceBar
  <2>1. ValueIn(NULL) = NULL
    BY DEF ValueIn
  <2>2. forceBar' = IF p \in Limits THEN [forceBar EXCEPT ![c][p] = ValueIn(NULL)]
                    ELSE forceBar
    BY <1>0, <1>1, RequestChanges
  <2> QED BY <2>1, <2>2
<1>5. CASE p \notin Limits
  <2>1. UNCHANGED <<settingBar, failedBar>>
    BY <1>0, <1>1, <1>5, WriteChanges DEF RestoreHead, fileVars, settingBar, failedBar
  <2> QED BY <1>3, <1>4, <1>5, <2>1, Stutters
<1>6. CASE p \in Limits
  <2>1. l[1] \in Entry /\ l[1].val = Arb!Strongest(p, Arb!InForce(p, baseBar', forceBar'))
    BY <1>1, <1>6, HeadChosenNext DEF ChosenByHead, l
  <2>2. forceBar[c][p] = gone.val /\ forceBar[c][p] # NULL
    <3>1. forceBar[c][p] = gone.val
      BY <1>1, <1>6 DEF forceBar, ValueIn, gone
    <3> QED BY <1>2, <3>1, ValuesAreInts, NullIsNoValue
  <2>3. attr_value_comp(Attr[p], gone, l[1]) < 0 <=> Arb!Stronger(p, gone.val, l[1].val)
    <3>1. gone.val \in Int /\ l[1].val \in Int
      BY <1>2, <2>1, ValuesAreInts
    <3>2. Attr[p] \in LowerWins \/ (Attr[p] \notin LowerWins /\ Attr[p] \in HigherWins)
      BY <1>0, <1>6 DEF Limits, AttrNames
    <3>3. CASE Attr[p] \in LowerWins
      BY <1>6, <3>1, <3>3 DEF attr_value_comp, value_compare, Arb!Stronger
    <3>4. CASE Attr[p] \notin LowerWins /\ Attr[p] \in HigherWins
      BY <1>6, <3>1, <3>4 DEF attr_value_comp, value_compare, Arb!Stronger
    <3> QED BY <3>2, <3>3, <3>4
  <2>4. IF Arb!Stronger(p, gone.val, l[1].val)
        THEN Arb!Write(p, l[1].val) ELSE UNCHANGED <<settingBar, failedBar>>
    <3>1. CASE attr_value_comp(Attr[p], gone, l[1]) < 0
      <4>v. PICK v : v = l[1].val
        OBVIOUS
      <4>1. PICK ok \in BOOLEAN : write_attr_value(p, v, ok)
        BY <4>v, <1>1, <3>1 DEF RestoreHead
      <4>2. Arb!Write(p, v)
        BY <1>0, <1>6, <4>1, WriteChanges
      <4> QED BY <4>v, <2>3, <3>1, <4>2
    <3>2. CASE ~ (attr_value_comp(Attr[p], gone, l[1]) < 0)
      <4>1. UNCHANGED <<file, unwritten>>
        BY <1>1, <3>2 DEF RestoreHead, fileVars
      <4>2. UNCHANGED <<settingBar, failedBar>>
        BY <4>1 DEF settingBar, failedBar
      <4> QED BY <2>3, <3>2, <4>2
    <3> QED BY <3>1, <3>2
  <2>5. Arb!Withdraw(c, p)
    BY <1>3, <1>4, <1>6, <2>1, <2>2, <2>4 DEF Arb!Withdraw
  <2> QED BY <1>6, <2>5 DEF Arb!Next, ArbStep
<1> QED BY <1>5, <1>6

LEMMA EndSimulated ==
    ASSUME Unraced, Unraced', NEW how, ProcessEnds(how) PROVE ArbStep
<1>1. /\ def_values' = [p \in Paths |-> NULL]
      /\ my_changes' = [c \in Conns |-> [p \in Paths |-> NULL]]
      /\ wpc' = "none" /\ UNCHANGED <<file, unwritten>>
  BY DEF ProcessEnds, fileVars
<1>2. /\ baseBar' = [p \in Limits |-> NULL]
      /\ forceBar' = [c \in Conns |-> [p \in Limits |-> NULL]]
  BY <1>1 DEF baseBar, forceBar, ValueIn, Limits
<1>3. decidingBar' = NULL /\ UNCHANGED <<settingBar, failedBar>>
  BY <1>1 DEF decidingBar, WorkerInLists, settingBar, failedBar
<1>4. Arb!End
  BY <1>2, <1>3 DEF Arb!End
<1> QED BY <1>4 DEF Arb!Next, ArbStep

LEMMA BootSimulated ==
    ASSUME Unraced, Unraced', LimitInv, MainBoot PROVE ArbStep
<1>1. /\ UNCHANGED <<def_values, my_changes, file, item>>
      /\ unwritten' = {} \/ UNCHANGED unwritten
      /\ mpc = "boot" /\ wpc' \in {"loop", wpc}
  BY DEF MainBoot, regVars, fileVars
<1>2. wpc = "none"
  BY <1>1 DEF LimitInv, Alive
<1>3. UNCHANGED <<baseBar, forceBar, settingBar, decidingBar>>
  BY <1>1, <1>2 DEF baseBar, forceBar, settingBar, decidingBar, WorkerInLists
<1>4. failedBar' = {} \/ UNCHANGED failedBar
  BY <1>1 DEF failedBar
<1>5. CASE UNCHANGED failedBar
  BY <1>3, <1>5, Stutters
<1>6. CASE failedBar' = {}
  <2>1. Arb!Adopt
    BY <1>3, <1>6 DEF Arb!Adopt
  <2> QED BY <2>1 DEF Arb!Next, ArbStep
<1> QED BY <1>4, <1>5, <1>6

\* The steps that the arbiter does not see.
LEMMA QuietSimulated ==
    ASSUME Unraced, Unraced', UNCHANGED <<def_values, my_changes, file, unwritten, item>>,
           WorkerInLists' <=> WorkerInLists
    PROVE  ArbStep
<1>1. UNCHANGED <<baseBar, forceBar, settingBar, failedBar, decidingBar>>
  BY DEF baseBar, forceBar, settingBar, failedBar, decidingBar
<1> QED BY <1>1, Stutters

-----------------------------------------------------------------------------
(* The refinement                                                          *)

ArbInv == /\ IInv /\ SortInv /\ TableInv /\ LimitInv /\ Joined
          /\ AuthedInv /\ Entered

LEMMA ArbInvAlways == Spec => []ArbInv
<1>1. Init => AuthedInv /\ Entered
  BY DEF Init, AuthedInv, Entered, WorkerInLists
<1>2. FileInv => Joined
  BY DEF FileInv
<1>3. IInv /\ Joined /\ AuthedInv /\ Entered /\ [Next]_vars => (AuthedInv /\ Entered)'
  BY AuthedStep, EnteredStep
<1> QED BY <1>1, <1>2, <1>3, IInvAlways, SortInvAlways, TableInvAlways, LimitInvAlways,
           FileInvAlways, PTL DEF Spec, ArbInv

LEMMA InitSimulated == Init => Arb!Init
<1> SUFFICES ASSUME Init PROVE Arb!Init
  OBVIOUS
<1>1. /\ baseBar = [p \in Limits |-> NULL]
      /\ forceBar = [c \in Conns |-> [p \in Limits |-> NULL]]
  BY DEF Init, baseBar, forceBar, ValueIn, Limits
<1>2. settingBar = [p \in Limits |-> InitFile[p]] /\ failedBar = {} /\ decidingBar = NULL
  BY DEF Init, settingBar, failedBar, decidingBar, WorkerInLists
<1>3. Unraced
  BY DEF Init, Unraced, Racing, Overlap, Dangling, WorkerInLists
<1> QED BY <1>1, <1>2, <1>3 DEF Arb!Init

\* While the threads have not met, one step at a time.
LEMMA StepSimulated ==
    ASSUME ArbInv, TypeOK', TableInv', SortInv', Next, Unraced, Unraced' PROVE ArbStep
<1> USE DEF ArbInv, workVars, regVars, fileVars
<1>1. ASSUME UNCHANGED <<def_values, my_changes, file, unwritten, item, wpc>> PROVE ArbStep
  BY <1>1, QuietSimulated DEF WorkerInLists
<1>2. CASE ClientStep
  <2>1. UNCHANGED <<def_values, my_changes, file, unwritten, item, wpc>>
    BY <1>2 DEF ClientStep, ClientConnect, ClientSend, ClientReceive, ClientEof, ClientClose
  <2> QED BY <1>1, <2>1
<1>3. CASE EnvStep
  <2>1. CASE \E how : ProcessEnds(how)
    BY <2>1, EndSimulated
  <2>2. CASE ~ \E how : ProcessEnds(how)
    <3>1. UNCHANGED <<def_values, my_changes, file, unwritten, item, wpc>>
      BY <1>3, <2>2 DEF EnvStep, Signal, Crash, Segv, Restart, AllowRestart
    <3> QED BY <1>1, <3>1
  <2> QED BY <2>1, <2>2
<1>4. CASE WorkerStep
  <2>1. CASE WorkerLoop \/ WorkerDefaultKept
    <3>1. /\ UNCHANGED <<def_values, my_changes, file, unwritten, item>>
          /\ WorkerInLists' <=> WorkerInLists
      BY <2>1 DEF WorkerLoop, WorkerDefaultKept, WorkerInLists
    <3> QED BY <3>1, QuietSimulated
  <2>2. CASE WorkerPop
    BY <2>2, PopSimulated
  <2>3. CASE WorkerDefault
    BY <2>3, DefaultSimulated
  <2>4. CASE WorkerDefaultFails
    BY <2>4, FailSimulated
  <2>5. CASE WorkerReplace
    BY <2>5, ReplaceSimulated
  <2>6. CASE WorkerApply
    BY <2>6, ApplySimulated
  <2> QED BY <1>4, <2>1, <2>2, <2>3, <2>4, <2>5, <2>6 DEF WorkerStep
<1>5. CASE MainStep
  <2>1. CASE MainExit
    BY <2>1, EndSimulated DEF MainExit
  <2>2. CASE \E p \in Paths : MainRollback(p)
    BY <2>2, RollbackSimulated
  <2>3. CASE MainBoot
    BY <2>3, BootSimulated
  <2>4. CASE ~ MainExit /\ ~ MainBoot /\ ~ \E p \in Paths : MainRollback(p)
    <3>1. UNCHANGED <<def_values, my_changes, file, unwritten, item, wpc>>
      BY <1>5, <2>4 DEF MainStep, MainCheck, MainEnterSelect, MainSelect,
         MainScanned, MainRefuse, MainAccept, MainAcceptFails, MainAuth, MainSet,
         MainLogLevel, MainDump, MainBadRequest, MainRead, MainDumped, MainLose,
         MainFree, MainStop, MainJoin, MainReset, MainFinalFree
    <3> QED BY <1>1, <3>1
  <2> QED BY <2>1, <2>2, <2>3, <2>4
<1> QED BY <1>2, <1>3, <1>4, <1>5 DEF Next

\* Every step is a step of the arbiter: one into a race spoils it for good.
LEMMA NextSimulated ==
    ArbInv /\ ArbInv' /\ [Next]_vars => [Arb!Next]_Arb!vars
<1> SUFFICES ASSUME ArbInv, ArbInv', [Next]_vars PROVE Arb!Next \/ UNCHANGED Arb!vars
  OBVIOUS
<1>1. CASE UNCHANGED vars
  <2>1. UNCHANGED <<baseBar, forceBar, settingBar, failedBar, decidingBar>>
    BY <1>1 DEF vars, regVars, workVars, fileVars, baseBar, forceBar, settingBar,
       failedBar, decidingBar, WorkerInLists
  <2>2. Unraced' <=> Unraced
    BY <1>1 DEF vars, regVars, workVars, mainVars, sockVars, Unraced, Racing, Overlap,
       Dangling, WorkerInLists, MainInLists
  <2> QED BY <2>1, <2>2 DEF Arb!vars
<1>2. CASE Next /\ Unraced'
  <2>1. Unraced
    BY <1>2, UnracedBefore
  <2>2. TypeOK' /\ TableInv' /\ SortInv'
    BY DEF ArbInv, IInv
  <2>3. ArbStep
    BY <1>2, <2>1, <2>2, StepSimulated
  <2> QED BY <2>3 DEF ArbStep
<1>3. CASE Next /\ ~ Unraced'
  <2>1. Arb!Spoil
    BY <1>3 DEF Arb!Spoil
  <2> QED BY <2>1 DEF Arb!Next
<1> QED BY <1>1, <1>2, <1>3

\* Arbitrates, for any number of clients, paths and requests, with crashes,
\* restarts and failing writes: worker_process_item, with its queue, its
\* tables and its sorted lists, and set_rollback decide every frequency, power
\* and C-state limit as the arbiter does, which compares all values in force,
\* until the two threads race.
THEOREM DaemonArbitrates == Spec => Arbitrates
<1>1. Init => Arb!Init
  BY InitSimulated
<1>2. ArbInv /\ ArbInv' /\ [Next]_vars => [Arb!Next]_Arb!vars
  BY NextSimulated
<1> QED BY <1>1, <1>2, ArbInvAlways, PTL DEF Spec, Arbitrates, Arb!Spec
===============================================================================
