---------------------------- MODULE VaultSearch ----------------------------
(***************************************************************************)
(* Listing rows page by page: the search of an organisation's vaults       *)
(* (routes/orgVaults.ts, GET /:orgId/vaults/search) and a user's           *)
(* notifications (services/notification.ts, listUserNotifications).  Both  *)
(* order by (created_at, id), newest first, ask for one row more than the  *)
(* page to learn whether there are more, and hand out a cursor made of the *)
(* page's last row; the next request asks for what comes after it.         *)
(*                                                                         *)
(* PostgreSQL keeps microseconds, a JavaScript Date milliseconds: the      *)
(* cursor's time is the row's, cut down to the millisecond.  Time is       *)
(* counted in ticks, PerMs of them to the millisecond.                     *)
(***************************************************************************)
EXTENDS Naturals, FiniteSets, Sequences, Functions

CONSTANTS Vaults,       \* ids of vaults an organisation may get
          Notices,      \* ids of notifications a user may get
          Walks,        \* walks through a list, each from its first page on
          Limits,       \* page sizes a request may ask for
          PerMs,        \* ticks in a millisecond
          LastListTime  \* bound: the clock stops here

ASSUME IdsAssumption == Vaults \cup Notices \subseteq Nat /\ Vaults \cap Notices = {}
ASSUME LimitsAssumption ==
  Limits \subseteq Nat \ {0} /\ PerMs \in Nat \ {0} /\ LastListTime \in Nat

VARIABLES rowTime,    \* rowTime[i]: created_at of a row that exists
          matching,      \* rows that match the listing's filters
          listTime,   \* the database's clock
          walk        \* walk[w]: where the client is and what it was given

searchVars == <<rowTime, matching, listTime, walk>>

RowIds == Vaults \cup Notices
Listings == {Vaults, Notices}
NoCursor == [at |-> LastListTime + PerMs, id |-> 0]

\* toISOString prints milliseconds: what is below them is cut off.
EncodeCursor(i) == [at |-> rowTime[i] - (rowTime[i] % PerMs), id |-> i]

\* created_at desc, id desc
Precedes(i, j) == \/ rowTime[i] > rowTime[j]
                  \/ rowTime[i] = rowTime[j] /\ i > j

\* The cursor's condition without the comparison of ids.
AfterByTime(i, cursor) == rowTime[i] < cursor.at

\* The condition the decoded cursor adds to the query.
After(i, cursor) == \/ rowTime[i] < cursor.at
                    \/ rowTime[i] = cursor.at /\ i < cursor.id

InOrder(S) ==
  CHOOSE rows \in [1..Cardinality(S) -> S] :
    \A k, l \in 1..Cardinality(S) : k < l => Precedes(rows[k], rows[l])

\* What the query returns: the matching rows after the cursor, in order.
Matches(list, cursor) ==
  InOrder({i \in list \cap DOMAIN rowTime : i \in matching /\ After(i, cursor)})

Cut(rows, n) == SubSeq(rows, 1, IF Len(rows) < n THEN Len(rows) ELSE n)

SearchTypeOK ==
  /\ DOMAIN rowTime \subseteq RowIds
  /\ \A i \in DOMAIN rowTime : rowTime[i] \in 0..LastListTime
  /\ matching \subseteq DOMAIN rowTime
  /\ listTime \in 0..LastListTime
  /\ walk \in [Walks -> [at : {"idle", "page", "done"}, list : Listings,
                         cursor : [at : Nat, id : Nat],
                         given : Seq(RowIds), steady : SUBSET RowIds,
                         ends : SUBSET RowIds]]

SearchInit ==
  /\ rowTime = <<>>
  /\ matching = {}
  /\ listTime = 0
  /\ walk \in [Walks -> [at : {"idle"}, list : Listings, cursor : {NoCursor},
                         given : {<<>>}, steady : {{}}, ends : {{}}]]

ListClockTicks ==
  /\ listTime < LastListTime
  /\ listTime' = listTime + 1
  /\ UNCHANGED <<rowTime, matching, walk>>

\* A row is inserted.  created_at is the start of its transaction, so a row can
\* become visible with a time that has passed.
RowAppears(i) ==
  /\ i \notin DOMAIN rowTime
  /\ \E at \in 0..listTime :
       rowTime' = [j \in DOMAIN rowTime \cup {i} |->
                     IF j = i THEN at ELSE rowTime[j]]
  /\ matching' = matching \cup {i}
  /\ UNCHANGED <<listTime, walk>>

\* A row a walk can no longer count on: it was hidden meanwhile.
Unsteady(i) == walk' = [w \in Walks |-> [walk[w] EXCEPT !.steady = @ \ {i}]]

\* A vault changes its status, so that it starts or stops matching, or is
\* deleted, which only sets deleted_at.
VaultChanges(i) ==
  /\ i \in DOMAIN rowTime \cap Vaults
  /\ matching' = IF i \in matching THEN matching \ {i} ELSE matching \cup {i}
  /\ Unsteady(i)
  /\ UNCHANGED <<rowTime, listTime>>

\* markAsRead, and an archived notification: it leaves the listing of unread ones.
NoticeRead(i) ==
  /\ i \in matching \cap Notices
  /\ matching' = matching \ {i}
  /\ Unsteady(i)
  /\ UNCHANGED <<rowTime, listTime>>

\* One request of walk w: the page, and the cursor when there is more.
AnswerPage(w, cursor, n, given, steady) ==
  LET found == Matches(walk[w].list, cursor)
      page  == Cut(found, n)
      last  == page[Len(page)]
      more  == Len(found) > n
  IN walk' = [walk EXCEPT ![w] =
       [at |-> IF more THEN "page" ELSE "done",
        list |-> walk[w].list,
        cursor |-> IF more THEN EncodeCursor(last) ELSE walk[w].cursor,
        given |-> given \o page,
        steady |-> steady,
        ends |-> IF more THEN walk[w].ends \cup {last} ELSE walk[w].ends]]

FirstPage(w) ==
  /\ walk[w].at = "idle"
  /\ \E n \in Limits : AnswerPage(w, NoCursor, n, <<>>, matching \cap walk[w].list)
  /\ UNCHANGED <<rowTime, matching, listTime>>

\* GET /:orgId/vaults/search with the cursor of the last answer
NextSearchPage(w) ==
  /\ walk[w].at = "page" /\ walk[w].list = Vaults
  /\ \E n \in Limits : AnswerPage(w, walk[w].cursor, n, walk[w].given, walk[w].steady)
  /\ UNCHANGED <<rowTime, matching, listTime>>

\* listUserNotifications with the cursor of the last answer
NextNoticePage(w) ==
  /\ walk[w].at = "page" /\ walk[w].list = Notices
  /\ \E n \in Limits : AnswerPage(w, walk[w].cursor, n, walk[w].given, walk[w].steady)
  /\ UNCHANGED <<rowTime, matching, listTime>>

SearchNext ==
  \/ ListClockTicks
  \/ \E i \in RowIds : RowAppears(i) \/ VaultChanges(i) \/ NoticeRead(i)
  \/ \E w \in Walks : FirstPage(w) \/ NextSearchPage(w) \/ NextNoticePage(w)

SearchSpec == SearchInit /\ [][SearchNext]_searchVars

-----------------------------------------------------------------------------
\* A page ended on a row inside a millisecond, past its beginning, and row i lies in
\* the same millisecond: the cursor can step over it.
SteppedOver(w, i) ==
  \E e \in walk[w].ends :
    /\ EncodeCursor(e).at < rowTime[e]
    /\ EncodeCursor(i).at = EncodeCursor(e).at

(* However rows come, go and change between two requests, and however the page *)
(* size varies, a walk is given no row twice, though a hidden one may come      *)
(* back; and once it has ended it was given every row that matched from its     *)
(* first page on, ties on created_at included, but for those in a millisecond   *)
(* inside which a page ended: the cursor's truncated time steps over some.      *)
ListedOnce ==
  \A w \in Walks :
    /\ IsInjective(walk[w].given)
    /\ walk[w].at = "done" =>
         \A i \in walk[w].steady :
           \/ \E k \in DOMAIN walk[w].given : walk[w].given[k] = i
           \/ SteppedOver(w, i)
=============================================================================
