------------------------------ MODULE DataTable ------------------------------
(***************************************************************************)
(* The data table of the admin pages, bootstrap.table.js, and its pager,    *)
(* bootstrap.pagination.js: rows loaded by asynchronous requests whose      *)
(* answers arrive in any order or never, check boxes on the rows, and a     *)
(* check box in the header.                                                *)
(*                                                                         *)
(* A query is the parameter given to load and a page; the rows of an answer *)
(* are numbered from 1 and only their number matters.  The table has check  *)
(* boxes and a pager (opt.pagination, column.checkbox) and formatterRow     *)
(* builds no row of its own.                                               *)
(***************************************************************************)
EXTENDS Integers, FiniteSets

CONSTANTS Filters,       \* the parameters that callers of load give
          NoFilter,      \* the parameter of the first request, {}
          PageSize,      \* opt.pageSize
          MAX_SHOW_PAGE, \* the most page links the pager shows at a time
          Totals,        \* bound: how many rows there may be
          MaxRequests    \* bound: requests a table sends

ASSUME PageAssumption == /\ PageSize \in Nat \ {0}
                         /\ MAX_SHOW_PAGE \in Nat \ {0}
ASSUME TableBoundsAssumption == Totals \subseteq Nat /\ MaxRequests \in Nat
ASSUME FilterAssumption == NoFilter \notin Filters

VARIABLES source,      \* where the rows come from: opt.url or opt.data
          single,      \* opt.singleSelect
          lastQuery,   \* jq.data(LAST_QUERY_PARAM)
          requests,    \* the posts that are not answered yet
          shown,       \* the query and the number of the answer on display
          rows,        \* how many rows are on display
          checked,     \* the rows whose check box is set
          headerChecked, \* the check box of the header is set
          pager,       \* the pager: its current page and its total of rows
          loaded,      \* $.tools.markSuccess has been called
          sent,        \* the number of posts sent
          asked,       \* history: the query the user asked for last
          hasty,       \* history: see PagerAgreesWithRows
          replaced     \* history: rows came under a header that is checked

tableVars == <<source, single, lastQuery, requests, shown, rows, checked,
               headerChecked, pager, loaded, sent, asked, hasty, replaced>>

AnyFilter == Filters \cup {NoFilter}
Query(f, p) == [filter |-> f, page |-> p]
NoPager == [page |-> 0, total |-> 0]
Kinds == {"create", "load", "page"}     \* by the callback of the post

TableTypeOK ==
    /\ source \in {"none", "url", "data"}
    /\ single \in BOOLEAN /\ headerChecked \in BOOLEAN /\ loaded \in BOOLEAN
    /\ hasty \in BOOLEAN /\ replaced \in BOOLEAN
    /\ lastQuery \in [filter : AnyFilter, page : Nat]
    /\ asked \in [filter : AnyFilter, page : Nat]
    /\ requests \subseteq [kind : Kinds, filter : AnyFilter, page : Nat,
                           n : Nat]
    /\ shown \in [filter : AnyFilter, page : Nat, n : Nat]
    /\ rows \in Nat /\ sent \in Nat
    /\ checked \subseteq 1 .. rows
    /\ pager \in [page : Nat, total : Nat]

TableInit ==
    /\ source = "none" /\ single = FALSE
    /\ lastQuery = Query(NoFilter, 0) /\ asked = Query(NoFilter, 0)
    /\ requests = {} /\ sent = 0
    /\ shown = [filter |-> NoFilter, page |-> 0, n |-> 0]
    /\ rows = 0 /\ checked = {} /\ headerChecked = FALSE
    /\ pager = NoPager /\ loaded = FALSE
    /\ hasty = FALSE /\ replaced = FALSE

----------------------------------------------------------------------------
(* The pager.                                                              *)

\* _getTotalPage: an empty result has one page.
TotalPage(total) ==
    IF total = 0 THEN 1
    ELSE total \div PageSize + (IF total % PageSize = 0 THEN 0 ELSE 1)

\* A mutation: the window is not pulled back at the last page.
FirstLinkPastTheEnd(page, pages) ==
    LET ceil == (MAX_SHOW_PAGE + 1) \div 2
    IN  IF page - ceil <= 0 THEN 1 ELSE page - MAX_SHOW_PAGE \div 2

\* _create: where the window of page links starts.
FirstLink(page, pages) ==
    LET ceil  == (MAX_SHOW_PAGE + 1) \div 2
        floor == MAX_SHOW_PAGE \div 2
    IN  IF page - ceil <= 0 THEN 1
        ELSE IF page + floor >= pages THEN pages - MAX_SHOW_PAGE + 1
        ELSE page - floor

\* The page links: _createItem draws none below 1 or above the last page.
Links(page, pages) ==
    LET start == FirstLink(page, pages)
    IN  {p \in start .. start + MAX_SHOW_PAGE - 1 : 1 <= p /\ p <= pages}

\* What a click can select: the links and the four buttons for the first,
\* previous, next and last page, except the page that is active.
Selectable ==
    LET pages == TotalPage(pager.total)
    IN  (Links(pager.page, pages) \cup {1, pages} \cup
            ({pager.page - 1, pager.page + 1} \cap 1 .. pages)) \ {pager.page}

\* _createPagination, always from the first page in a callback.
NewPager(total) == [page |-> 1, total |-> total]

----------------------------------------------------------------------------
(* Requests and answers.                                                   *)

\* _getTableDataContentFromRemote past onBeforeLoad: the query becomes the
\* last one and is posted.
Post(kind, query) ==
    /\ sent < MaxRequests
    /\ lastQuery' = query
    /\ sent' = sent + 1
    /\ requests' = requests \cup
           {[kind |-> kind, filter |-> query.filter, page |-> query.page,
             n |-> sent + 1]}

\* onBeforeLoad returned false: nothing is sent or remembered.
Veto == UNCHANGED <<lastQuery, sent, requests, asked>>

\* createTable with opt.url; s is opt.singleSelect.
CreateTable(s) ==
    /\ source = "none"
    /\ source' = "url" /\ single' = s
    /\ \/ /\ Post("create", Query(NoFilter, 1))
          /\ asked' = Query(NoFilter, 1)
       \/ Veto
    /\ UNCHANGED <<shown, rows, checked, headerChecked, pager, loaded, hasty,
                   replaced>>

\* createTable with opt.data of k rows: the rows are drawn, then the name
\* data, which is not defined there, throws before the pager is made.
CreateFromData(s, k) ==
    /\ source = "none"
    /\ source' = "data" /\ single' = s /\ rows' = k
    /\ UNCHANGED <<lastQuery, requests, shown, checked, headerChecked, pager,
                   loaded, sent, asked, hasty, replaced>>

\* load(f).  Once it is answered the pager is made anew.
Load(f) ==
    /\ source = "url"
    /\ \/ /\ Post("load", Query(f, 1))
          /\ asked' = Query(f, 1)
          /\ hasty' = (requests # {})
       \/ Veto /\ UNCHANGED hasty
    /\ UNCHANGED <<source, single, shown, rows, checked, headerChecked, pager,
                   loaded, replaced>>

\* A mutation: a page is asked for without the parameter of the last load.
SelectPageUnfiltered(p) ==
    /\ pager # NoPager
    /\ pager' = [pager EXCEPT !.page = p]
    /\ Post("page", Query(NoFilter, p))
    /\ asked' = Query(asked.filter, p)
    /\ hasty' = (hasty \/ requests # {})
    /\ UNCHANGED <<source, single, shown, rows, checked, headerChecked, loaded,
                   replaced>>

\* _selectPage: the rows of the page are asked for with the last query, and
\* the pager moves at once, also when onBeforeLoad refuses.
SelectPage(p) ==
    /\ pager # NoPager
    /\ pager' = [pager EXCEPT !.page = p]
    /\ \/ /\ Post("page", Query(lastQuery.filter, p))
          /\ asked' = Query(asked.filter, p)
          /\ hasty' = (hasty \/ requests # {})
       \/ Veto /\ hasty' = TRUE
    /\ UNCHANGED <<source, single, shown, rows, checked, headerChecked, loaded,
                   replaced>>

\* How many rows the page holds when the server has total rows.
RowsOf(page, total) ==
    LET rest == total - (page - 1) * PageSize
    IN  IF rest <= 0 THEN 0 ELSE IF rest < PageSize THEN rest ELSE PageSize

\* A mutation: the boxes that were checked stay checked under new rows.
DrawKeepsChecked(r, total) ==
    /\ shown' = [filter |-> r.filter, page |-> r.page, n |-> r.n]
    /\ rows' = RowsOf(r.page, total)
    /\ UNCHANGED <<checked, replaced>>

\* _createTableFromData: new rows, no box checked, the header as it was.
Draw(r, total) ==
    /\ shown' = [filter |-> r.filter, page |-> r.page, n |-> r.n]
    /\ rows' = RowsOf(r.page, total)
    /\ checked' = {}
    /\ replaced' = (replaced \/ headerChecked)

\* The answer to r arrives; the server has total rows for it now.
Answered(r, total) ==
    /\ requests' = requests \ {r}
    /\ Draw(r, total)
    /\ pager' = IF r.kind = "page" THEN pager ELSE NewPager(total)
    /\ loaded' = (loaded \/ r.kind = "create")
    /\ UNCHANGED <<source, single, lastQuery, headerChecked, sent, asked, hasty>>

\* The post fails or its answer is empty: there is no handler for either.
AnswerLost(r) ==
    /\ requests' = requests \ {r}
    /\ hasty' = TRUE
    /\ UNCHANGED <<source, single, lastQuery, shown, rows, checked,
                   headerChecked, pager, loaded, sent, asked, replaced>>

----------------------------------------------------------------------------
(* Check boxes: a click of the user, or checkRow and unCheckRow.            *)

\* _ckickChk in single mode compares the position i of a checked row among
\* the checked ones with the number of the row clicked, and clears the boxes
\* of all checked rows when they differ.
KeepSingle(marked, row) ==
    IF \E i \in 1 .. Cardinality(marked) : i # row THEN {} ELSE marked

CheckRow(row) ==
    LET marked == checked \cup {row}
    IN  /\ checked' = IF single THEN KeepSingle(marked, row) ELSE marked
        /\ headerChecked' = (headerChecked \/ (~single /\ marked = 1 .. rows))
        /\ replaced' = (replaced /\ ~(~single /\ marked = 1 .. rows))

\* A mutation: the header stays set when a row is cleared.
UnCheckRowOnly(row) ==
    /\ checked' = checked \ {row}
    /\ UNCHANGED <<headerChecked, replaced>>

UnCheckRow(row) ==
    /\ checked' = checked \ {row}
    /\ headerChecked' = (headerChecked /\ single)
    /\ replaced' = (replaced /\ single)

\* _checkAll.  In single mode it means to clear the header's box, but "this"
\* is not the box there.
ClickHeader ==
    /\ headerChecked' = ~headerChecked
    /\ checked' = IF single THEN checked
                  ELSE IF headerChecked THEN {} ELSE 1 .. rows
    /\ replaced' = (replaced /\ single)

ClickBox ==
    /\ source # "none"
    /\ \/ \E row \in 1 .. rows : CheckRow(row) \/ UnCheckRow(row)
       \/ ClickHeader
    /\ UNCHANGED <<source, single, lastQuery, requests, shown, rows, pager,
                   loaded, sent, asked, hasty>>

----------------------------------------------------------------------------
TableNext ==
    \/ \E s \in BOOLEAN : CreateTable(s)
    \/ \E s \in BOOLEAN, k \in Totals : CreateFromData(s, k)
    \/ \E f \in Filters : Load(f)
    \/ \E p \in Selectable : SelectPage(p)
    \/ \E r \in requests : AnswerLost(r)
    \/ \E r \in requests, total \in Totals : Answered(r, total)
    \/ ClickBox

TableSpec == TableInit /\ [][TableNext]_tableVars

----------------------------------------------------------------------------
(* Properties.                                                             *)

Quiet == requests = {} /\ source = "url"

(* Once the newest request has been answered last, the rows are those of   *)
(* the parameter of the last load and of the page selected since: moving   *)
(* through the pages keeps what the table was filtered by.  Only an answer *)
(* that overtakes a newer one breaks this (bootstrap.table.js:286).        *)
TableShowsAsked ==
    Quiet /\ shown.n = sent => Query(shown.filter, shown.page) = asked

(* The pager stands on the page whose rows are shown, when since the last  *)
(* load that was sent on a quiet table every click waited for the answer   *)
(* of the one before, none was refused by onBeforeLoad and no answer was   *)
(* lost.  A page selected while a load is on its way moves the pager, and  *)
(* the answer of the load moves it back to page 1 (bootstrap.table.js:571).*)
PagerAgreesWithRows ==
    Quiet /\ pager # NoPager /\ ~hasty => pager.page = shown.page

(* The pager always offers its own page, and as many links as fit, without *)
(* a gap: the window arithmetic of pagination.js:60-66 is right at both     *)
(* ends and for fewer pages than links.                                    *)
PagerWindow ==
    pager # NoPager =>
        LET pages == TotalPage(pager.total)
        IN  \E a, b \in 1 .. pages :
                /\ Links(pager.page, pages) = a .. b
                /\ a <= pager.page /\ pager.page <= b
                /\ b - a + 1 = IF pages < MAX_SHOW_PAGE THEN pages
                                                        ELSE MAX_SHOW_PAGE

(* In a table with several selections a set header means that every row is *)
(* checked, whichever of header, click and method set it, except after new *)
(* rows came under a set header, which _createTableFromData leaves set      *)
(* (bootstrap.table.js:328).                                               *)
HeaderMeansAll ==
    ~single /\ headerChecked /\ ~replaced => checked = 1 .. rows

(* singleSelect: at most one row is checked, although the boxes are set    *)
(* before the others are cleared (bootstrap.table.js:414-422).             *)
AtMostOneSelected == single => Cardinality(checked) <= 1

(* The pager stands where the rows are and offers the right links.          *)
PagerIsRight == PagerAgreesWithRows /\ PagerWindow

(* The check boxes of header and rows mean what they say.                   *)
BoxesAreRight == HeaderMeansAll /\ AtMostOneSelected
=============================================================================
