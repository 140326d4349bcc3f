--------------------------- MODULE Widgets_proofs ---------------------------
(***************************************************************************)
(* Proofs about the widgets of the pages: DataTable, for any filters, page  *)
(* size, number of page links and of requests; ImageUpload, for any limit,  *)
(* number of files and of uploads; and FormCombo, for any options.          *)
(***************************************************************************)
EXTENDS DataTable, ImageUpload, FormCombo, SequenceTheorems,
        FiniteSetTheorems, TLAPS

(* DataTable: what the table shows, where the pager stands, which links it  *)
(* offers and what the check boxes say.                                    *)

(* Types.  A request, the rows shown and a query have a filter and a page.  *)
Shape ==
    /\ TableTypeOK
    /\ \A r \in requests : r.kind # "page" => r.page = 1

(* The pager stands on one of its pages.                                   *)
OnAPage == pager # NoPager => pager.page \in 1 .. TotalPage(pager.total)

(* What was asked last is what is posted last; the newest request, or the   *)
(* rows it brought, are for it.                                            *)
AskedIsPosted ==
    /\ asked = lastQuery
    /\ \A r \in requests : /\ r.n <= sent
                           /\ r.n = sent => Query(r.filter, r.page) = asked
    /\ shown.n <= sent
    /\ shown.n = sent => Query(shown.filter, shown.page) = asked

(* Without haste there is one request at most; the pager has moved for it,  *)
(* or moves with its answer.                                               *)
OneByOne ==
    ~hasty =>
        \/ requests = {} /\ (pager # NoPager => pager.page = shown.page)
        \/ \E r \in requests : /\ requests = {r}
                               /\ r.kind = "page" => pager.page = r.page

(* Before its creation a table has nothing.                                *)
NothingYet ==
    source = "none" => /\ requests = {} /\ pager = NoPager /\ checked = {}
                       /\ ~headerChecked

TableInv == /\ Shape /\ NothingYet /\ OnAPage /\ AskedIsPosted /\ OneByOne
            /\ HeaderMeansAll /\ AtMostOneSelected
-----------------------------------------------------------------------------
(* The arithmetic of the pager.                                            *)

(* Every number of rows makes at least one page (_getTotalPage).           *)
LEMMA TotalPagePositive ==
    ASSUME NEW total \in Nat
    PROVE  TotalPage(total) \in Nat \ {0}
<1>1. PageSize \in Nat /\ PageSize > 0
  BY PageAssumption
<1>2. CASE total = 0
  BY <1>2 DEF TotalPage
<1>3. CASE total # 0
  <2>1. total \div PageSize \in Nat /\ total % PageSize \in Nat
    BY <1>1
  <2>2. total = PageSize * (total \div PageSize) + (total % PageSize)
    BY <1>1
  <2>3. total % PageSize = 0 => total \div PageSize # 0
    BY <1>1, <1>3, <2>1, <2>2
  <2> QED
    BY <1>3, <2>1, <2>3 DEF TotalPage
<1> QED
  BY <1>2, <1>3

(* From every page the links are an interval that contains the page and is  *)
(* as long as the window allows (_create).                                 *)
LEMMA LinksAreAWindow ==
    ASSUME NEW pages \in Nat \ {0}, NEW page \in 1 .. pages
    PROVE  \E a, b \in 1 .. pages :
               /\ Links(page, pages) = a .. b
               /\ a <= page /\ page <= b
               /\ b - a + 1 = IF pages < MAX_SHOW_PAGE THEN pages
                                                       ELSE MAX_SHOW_PAGE
<1> DEFINE start == FirstLink(page, pages)
           first == IF start < 1 THEN 1 ELSE start
           last  == IF start + MAX_SHOW_PAGE - 1 > pages THEN pages
                    ELSE start + MAX_SHOW_PAGE - 1
<1>1. MAX_SHOW_PAGE \in Nat /\ MAX_SHOW_PAGE > 0
  BY PageAssumption
<1>2. /\ start \in Int
      /\ start <= page /\ page <= start + MAX_SHOW_PAGE - 1
      /\ start < 1 => start + MAX_SHOW_PAGE - 1 = pages
      /\ start + MAX_SHOW_PAGE - 1 > pages => start = 1
  BY <1>1 DEF FirstLink
<1>3. Links(page, pages) = first .. last
  BY <1>1, <1>2 DEF Links
<1>4. first \in 1 .. pages /\ last \in 1 .. pages
  BY <1>1, <1>2
<1>5. first <= page /\ page <= last
  BY <1>1, <1>2
<1>6. last - first + 1 = IF pages < MAX_SHOW_PAGE THEN pages ELSE MAX_SHOW_PAGE
  BY <1>1, <1>2
<1> QED
  BY <1>3, <1>4, <1>5, <1>6

(* What can be clicked in the pager is one of its pages.                   *)
LEMMA SelectableIsAPage ==
    ASSUME pager.total \in Nat, pager.page \in Nat
    PROVE  Selectable \subseteq 1 .. TotalPage(pager.total)
BY TotalPagePositive DEF Selectable, Links
-----------------------------------------------------------------------------
(***************************************************************************)
(* The invariant.                                                          *)
(***************************************************************************)
LEMMA InitTable == TableInit => TableInv
<1> SUFFICES ASSUME TableInit PROVE TableInv
  OBVIOUS
<1> USE DEF TableInit
<1>1. Shape
  BY DEF Shape, TableTypeOK, Query, NoPager, AnyFilter
<1>2. NothingYet /\ OnAPage /\ AskedIsPosted /\ OneByOne
  BY DEF NothingYet, OnAPage, AskedIsPosted, OneByOne, Query
<1>3. HeaderMeansAll /\ AtMostOneSelected
  BY FS_EmptySet DEF HeaderMeansAll, AtMostOneSelected
<1> QED
  BY <1>1, <1>2, <1>3 DEF TableInv

(* A post adds the newest request, which is for the query posted.          *)
LEMMA PostedIsNewest ==
    ASSUME Shape, AskedIsPosted, NEW kind \in Kinds, NEW f \in AnyFilter,
           NEW p \in Nat, Post(kind, Query(f, p)), asked' = Query(f, p),
           kind # "page" => p = 1, UNCHANGED shown
    PROVE  /\ AskedIsPosted'
           /\ requests' \subseteq [kind : Kinds, filter : AnyFilter, page : Nat,
                                   n : Nat]
           /\ \A r \in requests' : r.kind # "page" => r.page = 1
           /\ lastQuery' \in [filter : AnyFilter, page : Nat] /\ sent' \in Nat
           /\ requests = {} =>
                \E r \in requests' : requests' = {r} /\ r.kind = kind /\ r.page = p
<1> DEFINE new == [kind |-> kind, filter |-> f, page |-> p, n |-> sent + 1]
<1>1. requests' = requests \cup {new} /\ sent' = sent + 1 /\ lastQuery' = Query(f, p)
  BY DEF Post, Query
<1>2. sent \in Nat /\ new \in [kind : Kinds, filter : AnyFilter, page : Nat, n : Nat]
  BY DEF Shape, TableTypeOK
<1>3. \A r \in requests : r.n \in Nat /\ r.n <= sent
  BY DEF Shape, TableTypeOK, AskedIsPosted
<1>4. shown.n \in Nat /\ shown.n <= sent
  BY DEF Shape, TableTypeOK, AskedIsPosted
<1>5. AskedIsPosted'
  <2>1. \A r \in requests' : r.n <= sent' /\ (r.n = sent' => Query(r.filter, r.page) = asked')
    BY <1>1, <1>2, <1>3 DEF Query
  <2> QED
    BY <1>1, <1>2, <1>4, <2>1 DEF AskedIsPosted
<1>6. \A r \in requests' : r.kind # "page" => r.page = 1
  BY <1>1 DEF Shape
<1>7. lastQuery' \in [filter : AnyFilter, page : Nat]
  BY <1>1 DEF Query
<1>8. requests = {} =>
          \E r \in requests' : requests' = {r} /\ r.kind = kind /\ r.page = p
  BY <1>1
<1> QED
  BY <1>1, <1>2, <1>5, <1>6, <1>7, <1>8 DEF Shape, TableTypeOK

LEMMA CreateTableKeepsInv ==
    ASSUME TableInv, NEW s \in BOOLEAN, CreateTable(s)
    PROVE  TableInv'
<1>1. requests = {} /\ pager = NoPager /\ checked = {} /\ ~headerChecked
  BY DEF CreateTable, TableInv, NothingYet
<1>2. CASE Veto
  <2>1. Shape' /\ AskedIsPosted'
    BY <1>2 DEF CreateTable, Veto, TableInv, Shape, TableTypeOK, AskedIsPosted
  <2>2. OnAPage' /\ OneByOne' /\ NothingYet'
    BY <1>1, <1>2 DEF CreateTable, Veto, TableInv, OnAPage, OneByOne, NothingYet
  <2>3. HeaderMeansAll' /\ AtMostOneSelected'
    BY <1>1, FS_EmptySet DEF CreateTable, HeaderMeansAll, AtMostOneSelected
  <2> QED
    BY <2>1, <2>2, <2>3 DEF TableInv
<1>3. CASE Post("create", Query(NoFilter, 1)) /\ asked' = Query(NoFilter, 1)
  <2>1. /\ AskedIsPosted'
        /\ requests' \subseteq [kind : Kinds, filter : AnyFilter, page : Nat,
                                n : Nat]
        /\ \A r \in requests' : r.kind # "page" => r.page = 1
        /\ lastQuery' \in [filter : AnyFilter, page : Nat] /\ sent' \in Nat
        /\ \E r \in requests' : requests' = {r} /\ r.kind = "create"
    BY <1>1, <1>3, PostedIsNewest DEF CreateTable, TableInv, Kinds, AnyFilter
  <2>2. Shape'
    BY <1>3, <2>1 DEF CreateTable, TableInv, Shape, TableTypeOK, AskedIsPosted
  <2>3. OnAPage' /\ OneByOne' /\ NothingYet'
    BY <1>1, <2>1 DEF CreateTable, TableInv, OnAPage, OneByOne, NothingYet
  <2>4. HeaderMeansAll' /\ AtMostOneSelected'
    BY <1>1, FS_EmptySet DEF CreateTable, HeaderMeansAll, AtMostOneSelected
  <2> QED
    BY <2>1, <2>2, <2>3, <2>4 DEF TableInv
<1> QED
  BY <1>2, <1>3 DEF CreateTable

LEMMA CreateFromDataKeepsInv ==
    ASSUME TableInv, NEW s \in BOOLEAN, NEW k \in Totals, CreateFromData(s, k)
    PROVE  TableInv'
<1>1. requests = {} /\ pager = NoPager /\ checked = {} /\ ~headerChecked
  BY DEF CreateFromData, TableInv, NothingYet
<1>2. Shape'
  BY <1>1, TableBoundsAssumption DEF CreateFromData, TableInv, Shape, TableTypeOK
<1>3. OnAPage' /\ AskedIsPosted' /\ OneByOne' /\ NothingYet'
  BY <1>1 DEF CreateFromData, TableInv, OnAPage, AskedIsPosted, OneByOne, NothingYet
<1>4. HeaderMeansAll' /\ AtMostOneSelected'
  BY <1>1, FS_EmptySet DEF CreateFromData, HeaderMeansAll, AtMostOneSelected
<1> QED
  BY <1>2, <1>3, <1>4 DEF TableInv

LEMMA LoadKeepsInv ==
    ASSUME TableInv, NEW f \in Filters, Load(f)
    PROVE  TableInv'
<1>1. HeaderMeansAll' /\ AtMostOneSelected' /\ OnAPage'
  BY DEF Load, TableInv, HeaderMeansAll, AtMostOneSelected, OnAPage
<1>2. CASE Veto /\ UNCHANGED hasty
  BY <1>1, <1>2 DEF Load, Veto, TableInv, Shape, TableTypeOK, AskedIsPosted,
                    OneByOne, NothingYet
<1>3. CASE /\ Post("load", Query(f, 1)) /\ asked' = Query(f, 1)
           /\ hasty' = (requests # {})
  <2>1. /\ AskedIsPosted'
        /\ requests' \subseteq [kind : Kinds, filter : AnyFilter, page : Nat,
                                n : Nat]
        /\ \A r \in requests' : r.kind # "page" => r.page = 1
        /\ lastQuery' \in [filter : AnyFilter, page : Nat] /\ sent' \in Nat
        /\ requests = {} => \E r \in requests' : requests' = {r} /\ r.kind = "load"
    BY <1>3, PostedIsNewest DEF Load, TableInv, Kinds, AnyFilter
  <2>2. Shape'
    BY <1>3, <2>1 DEF Load, TableInv, Shape, TableTypeOK, AskedIsPosted
  <2>3. OneByOne' /\ NothingYet'
    BY <1>3, <2>1 DEF Load, TableInv, OneByOne, NothingYet
  <2> QED
    BY <1>1, <2>1, <2>2, <2>3 DEF TableInv
<1> QED
  BY <1>2, <1>3 DEF Load

LEMMA SelectPageKeepsInv ==
    ASSUME TableInv, NEW p \in Selectable, SelectPage(p)
    PROVE  TableInv'
<1>1. p \in Nat /\ p \in 1 .. TotalPage(pager.total)
  <2>1. pager.total \in Nat /\ pager.page \in Nat
    BY DEF TableInv, Shape, TableTypeOK
  <2> QED
    BY <2>1, TotalPagePositive, SelectableIsAPage
<1>2. /\ pager' \in [page : Nat, total : Nat]
      /\ pager'.page = p /\ pager'.total = pager.total
  BY <1>1 DEF SelectPage, TableInv, Shape, TableTypeOK
<1>3. HeaderMeansAll' /\ AtMostOneSelected'
  BY DEF SelectPage, TableInv, HeaderMeansAll, AtMostOneSelected
<1>4. OnAPage'
  BY <1>1, <1>2 DEF OnAPage, TotalPage
<1>5. NothingYet'
  BY DEF SelectPage, TableInv, NothingYet
<1>6. CASE Veto /\ hasty' = TRUE
  <2>1. Shape'
    BY <1>2, <1>6 DEF SelectPage, Veto, TableInv, Shape, TableTypeOK
  <2>2. AskedIsPosted' /\ OneByOne'
    BY <1>6 DEF SelectPage, Veto, TableInv, AskedIsPosted, OneByOne
  <2> QED
    BY <1>3, <1>4, <1>5, <2>1, <2>2 DEF TableInv
<1>7. CASE /\ Post("page", Query(lastQuery.filter, p))
           /\ asked' = Query(asked.filter, p)
           /\ hasty' = (hasty \/ requests # {})
  <2>1. asked' = Query(lastQuery.filter, p) /\ lastQuery.filter \in AnyFilter
    BY <1>7 DEF TableInv, AskedIsPosted, Shape, TableTypeOK
  <2>2. /\ AskedIsPosted'
        /\ requests' \subseteq [kind : Kinds, filter : AnyFilter, page : Nat,
                                n : Nat]
        /\ \A r \in requests' : r.kind # "page" => r.page = 1
        /\ lastQuery' \in [filter : AnyFilter, page : Nat] /\ sent' \in Nat
        /\ requests = {} => \E r \in requests' : requests' = {r} /\ r.page = p
    BY <1>1, <1>7, <2>1, PostedIsNewest DEF SelectPage, TableInv, Kinds
  <2>3. Shape'
    BY <1>2, <1>7, <2>2 DEF SelectPage, TableInv, Shape, TableTypeOK, AskedIsPosted
  <2>4. OneByOne'
    BY <1>2, <1>7, <2>2 DEF TableInv, OneByOne
  <2> QED
    BY <1>3, <1>4, <1>5, <2>2, <2>3, <2>4 DEF TableInv
<1> QED
  BY <1>6, <1>7 DEF SelectPage

LEMMA AnswerLostKeepsInv ==
    ASSUME TableInv, NEW r \in requests, AnswerLost(r)
    PROVE  TableInv'
<1>1. Shape' /\ OnAPage'
  BY DEF AnswerLost, TableInv, Shape, TableTypeOK, OnAPage
<1>2. AskedIsPosted' /\ OneByOne' /\ NothingYet'
  BY DEF AnswerLost, TableInv, AskedIsPosted, OneByOne, NothingYet
<1>3. HeaderMeansAll' /\ AtMostOneSelected'
  BY DEF AnswerLost, TableInv, HeaderMeansAll, AtMostOneSelected
<1> QED
  BY <1>1, <1>2, <1>3 DEF TableInv

LEMMA AnsweredKeepsInv ==
    ASSUME TableInv, NEW r \in requests, NEW total \in Totals, Answered(r, total)
    PROVE  TableInv'
<1>1. /\ r \in [kind : Kinds, filter : AnyFilter, page : Nat, n : Nat]
      /\ total \in Nat
  BY TableBoundsAssumption DEF TableInv, Shape, TableTypeOK
<1>2. rows' \in Nat
  <2>1. (r.page - 1) * PageSize \in Int /\ PageSize \in Nat
    BY <1>1, PageAssumption
  <2> QED
    BY <1>1, <2>1 DEF Answered, Draw, RowsOf
<1>3. pager' \in [page : Nat, total : Nat] /\ OnAPage'
  <2>1. CASE r.kind = "page"
    BY <2>1 DEF Answered, TableInv, Shape, TableTypeOK, OnAPage, TotalPage
  <2>2. CASE r.kind # "page"
    <3>1. TotalPage(total) \in Nat \ {0}
      BY <1>1, TotalPagePositive
    <3>2. pager' = [page |-> 1, total |-> total]
      BY <2>2 DEF Answered, NewPager
    <3> QED
      BY <1>1, <3>1, <3>2 DEF OnAPage, TotalPage
  <2> QED
    BY <2>1, <2>2
<1>4. /\ shown' \in [filter : AnyFilter, page : Nat, n : Nat]
      /\ shown'.filter = r.filter /\ shown'.page = r.page /\ shown'.n = r.n
      /\ checked' = {}
  BY <1>1 DEF Answered, Draw
<1>5. Shape'
  <2>1. loaded' \in BOOLEAN /\ replaced' \in BOOLEAN
    BY DEF Answered, Draw, TableInv, Shape, TableTypeOK
  <2> QED
    BY <1>2, <1>3, <1>4, <2>1 DEF Answered, TableInv, Shape, TableTypeOK
<1>6. AskedIsPosted'
  BY <1>4 DEF Answered, TableInv, AskedIsPosted
<1>7. OneByOne'
  <2>1. CASE hasty
    BY <2>1 DEF Answered, OneByOne
  <2>2. CASE ~hasty
    <3>1. requests = {r} /\ (r.kind = "page" => pager.page = r.page)
      BY <2>2 DEF TableInv, OneByOne
    <3>2. requests' = {}
      BY <3>1 DEF Answered
    <3>3. pager'.page = r.page
      BY <3>1 DEF Answered, NewPager, TableInv, Shape
    <3> QED
      BY <1>4, <3>2, <3>3 DEF OneByOne
  <2> QED
    BY <2>1, <2>2
<1>8. NothingYet'
  BY DEF Answered, TableInv, NothingYet
<1>9. HeaderMeansAll' /\ AtMostOneSelected'
  <2>1. headerChecked' => replaced'
    BY DEF Answered, Draw
  <2>2. Cardinality(checked') = 0
    BY <1>4, FS_EmptySet
  <2> QED
    BY <2>1, <2>2 DEF HeaderMeansAll, AtMostOneSelected
<1> QED
  BY <1>3, <1>5, <1>6, <1>7, <1>8, <1>9 DEF TableInv

(* Whatever row is clicked, a table with single selection keeps one box at  *)
(* most: with two boxes set, one of the positions 1 and 2 differs from the  *)
(* number of the row, and all are cleared (_ckickChk).                     *)
LEMMA KeepSingleKeepsOne ==
    ASSUME NEW n \in Nat, NEW marked \in SUBSET (1 .. n), NEW row \in 1 .. n
    PROVE  /\ KeepSingle(marked, row) \subseteq marked
           /\ Cardinality(KeepSingle(marked, row)) <= 1
<1>1. Cardinality(marked) \in Nat
  <2>1. IsFiniteSet(1 .. n)
    BY FS_Interval
  <2>2. IsFiniteSet(marked)
    BY <2>1, FS_Subset
  <2> QED
    BY <2>2, FS_CardinalityType
<1>2. CASE \E i \in 1 .. Cardinality(marked) : i # row
  BY <1>2, FS_EmptySet DEF KeepSingle
<1>3. CASE \A i \in 1 .. Cardinality(marked) : i = row
  <2>1. Cardinality(marked) <= 1
    BY <1>1, <1>3
  <2> QED
    BY <1>3, <2>1 DEF KeepSingle
<1> QED
  BY <1>2, <1>3

LEMMA ClickBoxKeepsInv ==
    ASSUME TableInv, ClickBox
    PROVE  TableInv'
<1>1. OnAPage' /\ AskedIsPosted' /\ OneByOne' /\ NothingYet'
  BY DEF ClickBox, TableInv, OnAPage, AskedIsPosted, OneByOne, NothingYet, TotalPage
<1>2. rows \in Nat /\ checked \in SUBSET (1 .. rows) /\ IsFiniteSet(checked)
  <2>1. rows \in Nat /\ checked \in SUBSET (1 .. rows)
    BY DEF TableInv, Shape, TableTypeOK
  <2>2. IsFiniteSet(1 .. rows)
    BY <2>1, FS_Interval
  <2> QED
    BY <2>1, <2>2, FS_Subset
<1> DEFINE Boxes == /\ checked' \subseteq 1 .. rows
                   /\ headerChecked' \in BOOLEAN /\ replaced' \in BOOLEAN
                   /\ HeaderMeansAll' /\ AtMostOneSelected'
<1>3. ASSUME NEW row \in 1 .. rows, CheckRow(row) PROVE Boxes
  <2> DEFINE marked == checked \cup {row}
  <2>1. marked \in SUBSET (1 .. rows)
    BY <1>2
  <2>2. checked' = IF single THEN KeepSingle(marked, row) ELSE marked
    BY <1>3 DEF CheckRow
  <2>3. /\ checked' \subseteq 1 .. rows
        /\ single => Cardinality(checked') <= 1
    BY <1>2, <2>1, <2>2, KeepSingleKeepsOne
  <2>4. headerChecked' \in BOOLEAN /\ replaced' \in BOOLEAN
    BY <1>3 DEF CheckRow, TableInv, Shape, TableTypeOK
  <2>5. HeaderMeansAll'
    BY <1>2, <1>3 DEF ClickBox, CheckRow, TableInv, HeaderMeansAll
  <2> QED
    BY <2>3, <2>4, <2>5 DEF ClickBox, AtMostOneSelected
<1>4. ASSUME NEW row \in 1 .. rows, UnCheckRow(row) PROVE Boxes
  <2>1. checked' \subseteq checked
    BY <1>4 DEF UnCheckRow
  <2>2. Cardinality(checked') <= Cardinality(checked) /\ Cardinality(checked) \in Nat
        /\ Cardinality(checked') \in Nat
    BY <1>2, <2>1, FS_Subset, FS_CardinalityType
  <2>3. AtMostOneSelected'
    BY <2>2 DEF ClickBox, TableInv, AtMostOneSelected
  <2>4. headerChecked' \in BOOLEAN /\ replaced' \in BOOLEAN
    BY <1>4 DEF UnCheckRow, TableInv, Shape, TableTypeOK
  <2>5. HeaderMeansAll'
    BY <1>4 DEF ClickBox, UnCheckRow, HeaderMeansAll
  <2> QED
    BY <1>2, <2>1, <2>3, <2>4, <2>5
<1>5. ASSUME ClickHeader PROVE Boxes
  <2>1. checked' \subseteq 1 .. rows
    BY <1>2, <1>5 DEF ClickHeader
  <2>2. headerChecked' \in BOOLEAN /\ replaced' \in BOOLEAN
    BY <1>5 DEF ClickHeader, TableInv, Shape, TableTypeOK
  <2>3. HeaderMeansAll' /\ AtMostOneSelected'
    BY <1>5 DEF ClickBox, ClickHeader, TableInv, HeaderMeansAll, AtMostOneSelected
  <2> QED
    BY <2>1, <2>2, <2>3
<1>6. Boxes
  BY <1>3, <1>4, <1>5 DEF ClickBox
<1>7. Shape'
  BY <1>6 DEF ClickBox, TableInv, Shape, TableTypeOK
<1> QED
  BY <1>1, <1>6, <1>7 DEF TableInv

LEMMA TableStep ==
    TableInv /\ [TableNext]_tableVars => TableInv'
<1> SUFFICES ASSUME TableInv, [TableNext]_tableVars PROVE TableInv'
  OBVIOUS
<1>1. CASE UNCHANGED tableVars
  BY <1>1 DEF TableInv, Shape, TableTypeOK, NothingYet, OnAPage, TotalPage,
              AskedIsPosted, OneByOne, HeaderMeansAll, AtMostOneSelected, tableVars
<1>2. CASE TableNext
  BY <1>2, CreateTableKeepsInv, CreateFromDataKeepsInv, LoadKeepsInv,
     SelectPageKeepsInv, AnswerLostKeepsInv, AnsweredKeepsInv, ClickBoxKeepsInv
  DEF TableNext
<1> QED
  BY <1>1, <1>2

LEMMA TableInvariant == TableSpec => []TableInv
BY InitTable, TableStep, PTL DEF TableSpec
-----------------------------------------------------------------------------
(* The theorems.                                                           *)

(* Once the newest request has been answered, the table shows what the user *)
(* asked for last, with any number of requests in flight before.           *)
THEOREM TableShowsAskedAlways == TableSpec => []TableShowsAsked
<1>1. TableInv => TableShowsAsked
  BY DEF TableInv, AskedIsPosted, TableShowsAsked
<1> QED
  BY <1>1, TableInvariant, PTL

(* The pager stands on the page shown, as long as every click waits for the *)
(* answer before.                                                          *)
THEOREM PagerAgreesAlways == TableSpec => []PagerAgreesWithRows
<1>1. TableInv => PagerAgreesWithRows
  BY DEF TableInv, OneByOne, PagerAgreesWithRows, Quiet
<1> QED
  BY <1>1, TableInvariant, PTL

(* The pager always offers a window of pages around its own, for any page   *)
(* size, number of rows and of links.                                      *)
THEOREM PagerWindowAlways == TableSpec => []PagerWindow
<1>1. TableInv => PagerWindow
  <2> SUFFICES ASSUME TableInv, pager # NoPager
               PROVE  \E a, b \in 1 .. TotalPage(pager.total) :
                        /\ Links(pager.page, TotalPage(pager.total)) = a .. b
                        /\ a <= pager.page /\ pager.page <= b
                        /\ b - a + 1 = IF TotalPage(pager.total) < MAX_SHOW_PAGE
                                       THEN TotalPage(pager.total)
                                       ELSE MAX_SHOW_PAGE
    BY DEF PagerWindow
  <2>1. TotalPage(pager.total) \in Nat \ {0}
    BY TotalPagePositive DEF TableInv, Shape, TableTypeOK
  <2>2. pager.page \in 1 .. TotalPage(pager.total)
    BY DEF TableInv, OnAPage
  <2> QED
    BY <2>1, <2>2, LinksAreAWindow
<1> QED
  BY <1>1, TableInvariant, PTL

(* A set header check box of a table with several selections means that     *)
(* every row is checked, whatever is clicked in what order, until rows are  *)
(* drawn under a header that was set.                                      *)
THEOREM HeaderMeansAllAlways == TableSpec => []HeaderMeansAll
<1>1. TableInv => HeaderMeansAll
  BY DEF TableInv
<1> QED
  BY <1>1, TableInvariant, PTL

(* A table with a single selection has at most one box set.                 *)
THEOREM OneSelectedAlways == TableSpec => []AtMostOneSelected
<1>1. TableInv => AtMostOneSelected
  BY DEF TableInv
<1> QED
  BY <1>1, TableInvariant, PTL

(* The pager is right about page, total and links, for every page size and  *)
(* number of rows, unless a page was selected while a load was on its way.  *)
THEOREM PagerIsRightAlways == TableSpec => []PagerIsRight
<1>1. PagerAgreesWithRows /\ PagerWindow => PagerIsRight
  BY DEF PagerIsRight
<1> QED
  BY <1>1, PagerAgreesAlways, PagerWindowAlways, PTL

(* The check boxes of header and rows mean what they say, whatever is       *)
(* clicked, but for a header that was set when new rows came under it.     *)
THEOREM BoxesAreRightAlways == TableSpec => []BoxesAreRight
<1>1. HeaderMeansAll /\ AtMostOneSelected => BoxesAreRight
  BY DEF BoxesAreRight
<1> QED
  BY <1>1, HeaderMeansAllAlways, OneSelectedAlways, PTL

-----------------------------------------------------------------------------
(* ImageUpload: how many images there are, that each is drawn once, when    *)
(* the form shows, and that a file the change handler accepted is drawn.   *)

(* What is awaited is one of the starts, and is under the dialog.           *)
UnderDialog == Awaited => progress /\ upload.id \in 1 .. starts

(* A chain belongs to a start of its own.                                  *)
OwnChains ==
    \A c \in chains : /\ c.id <= starts /\ c.next <= c.files
                      /\ Awaited => c.id # upload.id
                      /\ \A d \in chains : d.id = c.id => d = c

(* An image that was drawn or dropped comes before what its chain draws     *)
(* next.                                                                   *)
Past(image) ==
    /\ image[1] <= starts
    /\ Awaited => image[1] # upload.id
    /\ \A c \in chains : image[1] = c.id => image[2] < c.next

AllPast == /\ \A j \in 1 .. Len(images) : Past(images[j])
           /\ \A image \in dropped : Past(image)

(* Without crowding there is room for what is awaited or still to draw.     *)
RoomKept ==
    ~crowded =>
        /\ dropped = {}
        /\ Awaited => chains = {} /\ Len(images) + upload.files <= MaxFileNum
        /\ \A c \in chains : /\ chains = {c}
                             /\ Len(images) + c.files - c.next + 1 <= MaxFileNum

UploadInv == /\ UploadTypeOK /\ NeverOverLimit /\ FormShownWhenRoom
             /\ UnderDialog /\ OwnChains /\ AllPast /\ DrawnOnce /\ RoomKept
-----------------------------------------------------------------------------
(* Lists whose images change places or go.                                 *)

(* Without(list, k) has the other images in their order.                   *)
LEMMA WithoutProperties ==
    ASSUME NEW S, NEW list \in Seq(S), NEW k \in 1 .. Len(list)
    PROVE  /\ Without(list, k) \in Seq(S)
           /\ Len(Without(list, k)) = Len(list) - 1
           /\ \A j \in 1 .. Len(list) - 1 :
                Without(list, k)[j] = list[IF j < k THEN j ELSE j + 1]
<1> DEFINE front == SubSeq(list, 1, k - 1)
           back  == SubSeq(list, k + 1, Len(list))
<1>1. Len(list) \in Nat /\ k \in Nat
  BY LenProperties
<1>2. /\ front \in Seq(S) /\ Len(front) = k - 1
      /\ \A j \in 1 .. k - 1 : front[j] = list[j]
  <2>1. 1 \in Int /\ k - 1 \in Int /\ \A i \in 1 .. k - 1 : list[i] \in S
    BY <1>1, ElementOfSeq
  <2>2. /\ front \in Seq(S)
        /\ Len(front) = IF 1 <= k - 1 THEN (k - 1) - 1 + 1 ELSE 0
        /\ \A j \in 1 .. (k - 1) - 1 + 1 : front[j] = list[1 + j - 1]
    BY <2>1, SubSeqProperties
  <2> QED
    BY <1>1, <2>2
<1>3. /\ back \in Seq(S) /\ Len(back) = Len(list) - k
      /\ \A j \in 1 .. Len(list) - k : back[j] = list[k + j]
  <2>1. /\ k + 1 \in Int /\ Len(list) \in Int
        /\ \A i \in k + 1 .. Len(list) : list[i] \in S
    BY <1>1, ElementOfSeq
  <2>2. /\ back \in Seq(S)
        /\ Len(back) = IF k + 1 <= Len(list) THEN Len(list) - (k + 1) + 1 ELSE 0
        /\ \A j \in 1 .. Len(list) - (k + 1) + 1 : back[j] = list[(k + 1) + j - 1]
    BY <2>1, SubSeqProperties
  <2>3. \A j \in 1 .. Len(list) - k : (k + 1) + j - 1 = k + j
    BY <1>1
  <2> QED
    BY <1>1, <2>2, <2>3
<1> HIDE DEF front, back
<1>4. /\ front \o back \in Seq(S)
      /\ Len(front \o back) = Len(list) - 1
      /\ \A j \in 1 .. Len(list) - 1 :
           (front \o back)[j] = IF j <= k - 1 THEN front[j] ELSE back[j - (k - 1)]
  <2>1. /\ front \o back \in Seq(S)
        /\ Len(front \o back) = Len(front) + Len(back)
        /\ \A j \in 1 .. Len(front) + Len(back) :
             (front \o back)[j] = IF j <= Len(front) THEN front[j]
                                                   ELSE back[j - Len(front)]
    BY <1>2, <1>3, ConcatProperties
  <2>2. Len(front) + Len(back) = Len(list) - 1
    BY <1>1, <1>2, <1>3
  <2> QED
    BY <1>2, <2>1, <2>2
<1>5. \A j \in 1 .. Len(list) - 1 :
          (front \o back)[j] = list[IF j < k THEN j ELSE j + 1]
  BY <1>1, <1>2, <1>3, <1>4
<1> QED
  BY <1>4, <1>5 DEF Without, front, back

(* Images that are some of those before, each once, are as good as before.  *)
LEMMA FewerOrMovedImages ==
    ASSUME UploadInv,
           images' \in Seq(Image),
           NEW p \in [1 .. Len(images') -> 1 .. Len(images)],
           \A j, k \in 1 .. Len(images') : j # k => p[j] # p[k],
           \A j \in 1 .. Len(images') : images'[j] = images[p[j]],
           UNCHANGED <<chains, upload, starts, dropped>>
    PROVE  AllPast' /\ DrawnOnce'
<1>1. AllPast'
  BY DEF UploadInv, AllPast, Past, Awaited
<1>2. DrawnOnce'
  <2>1. ASSUME NEW j \in 1 .. Len(images') PROVE p[j] \in 1 .. Len(images)
    BY <2>1
  <2>2. ASSUME NEW j \in 1 .. Len(images'), NEW k \in 1 .. Len(images'), j # k
        PROVE  images'[j] # images'[k]
    <3>1. p[j] # p[k] /\ images'[j] = images[p[j]] /\ images'[k] = images[p[k]]
      BY <2>2
    <3>2. images[p[j]] # images[p[k]]
      BY <2>1, <2>2, <3>1 DEF UploadInv, DrawnOnce
    <3> QED
      BY <3>1, <3>2
  <2>3. ASSUME NEW j \in 1 .. Len(images') PROVE images'[j] \notin dropped'
    <3>1. images'[j] = images[p[j]] /\ dropped' = dropped
      BY <2>3
    <3> QED
      BY <2>1, <3>1 DEF UploadInv, DrawnOnce
  <2> QED
    BY <2>2, <2>3 DEF DrawnOnce
<1> QED
  BY <1>1, <1>2
-----------------------------------------------------------------------------
(* One lemma per action.                                                   *)

LEMMA NoUploadType ==
    NoUpload \in [id : 0 .. MaxStarts, files : 0 .. MaxFiles, checks : 0 .. CHECK_COUNT]
BY FileAssumption, UploadBoundsAssumption DEF NoUpload

LEMMA InitUpload == UploadInit => UploadInv
<1> SUFFICES ASSUME UploadInit PROVE UploadInv
  OBVIOUS
<1>1. images = <<>> /\ Len(images) = 0 /\ images \in Seq(Image)
  BY EmptySeq DEF UploadInit
<1>2. UploadTypeOK
  <2>1. starts \in 0 .. MaxStarts
    BY UploadBoundsAssumption DEF UploadInit
  <2> QED
    BY <1>1, <2>1, NoUploadType DEF UploadInit, UploadTypeOK
<1> QED
  BY <1>1, <1>2, FileAssumption
  DEF UploadInit, UploadInv, NeverOverLimit, FormShownWhenRoom, Room, UnderDialog,
      OwnChains, AllPast, DrawnOnce, RoomKept, Awaited

LEMMA ChooseFilesKeepsInv ==
    ASSUME UploadInv, NEW files \in 1 .. MaxFiles, ChooseFiles(files)
    PROVE  UploadInv'
<1>1. starts \in Nat /\ starts' = starts + 1 /\ starts' \in 1 .. MaxStarts
  BY UploadBoundsAssumption DEF ChooseFiles, UploadInv, UploadTypeOK
<1>2. /\ upload' = [id |-> starts + 1, files |-> files, checks |-> CHECK_COUNT]
      /\ upload'.id = starts + 1 /\ upload'.files = files
  BY DEF ChooseFiles
<1>3. UploadTypeOK'
  BY <1>1, <1>2, FileAssumption, UploadBoundsAssumption
  DEF ChooseFiles, UploadInv, UploadTypeOK
<1>4. NeverOverLimit' /\ FormShownWhenRoom' /\ DrawnOnce'
  BY DEF ChooseFiles, UploadInv, NeverOverLimit, FormShownWhenRoom, Room, DrawnOnce
<1>5. UnderDialog'
  BY <1>1, <1>2 DEF ChooseFiles, UnderDialog
<1>6. OwnChains' /\ AllPast'
  <2>1. \A c \in chains : c.id \in Nat
    BY DEF UploadInv, UploadTypeOK, Starts
  <2>2. \A image \in Image : image[1] \in Nat /\ image[2] \in Nat
    BY DEF Image, Starts
  <2>3. /\ \A j \in 1 .. Len(images) : images[j] \in Image
        /\ \A image \in dropped : image \in Image
    BY ElementOfSeq DEF UploadInv, UploadTypeOK
  <2>4. OwnChains'
    BY <1>1, <1>2, <2>1 DEF ChooseFiles, UploadInv, OwnChains
  <2>5. AllPast'
    BY <1>1, <1>2, <2>2, <2>3 DEF ChooseFiles, UploadInv, AllPast, Past
  <2> QED
    BY <2>4, <2>5
<1>7. RoomKept'
  BY <1>2 DEF ChooseFiles, FitsLimit, UploadInv, RoomKept
<1> QED
  BY <1>3, <1>4, <1>5, <1>6, <1>7 DEF UploadInv

(* A look at the iframe that finds nothing changes no part of the invariant *)
(* but the number of looks that are left.                                  *)
LEMMA AnswerEmptyKeepsInv ==
    ASSUME UploadInv, AnswerEmpty
    PROVE  UploadInv'
<1>1. /\ upload' = [upload EXCEPT !.checks = upload.checks - 1]
      /\ upload \in [id : 0 .. MaxStarts, files : 0 .. MaxFiles,
                     checks : 0 .. CHECK_COUNT]
      /\ upload.checks > 1
  BY DEF AnswerEmpty, UploadInv, UploadTypeOK
<1>2. /\ upload'.id = upload.id /\ upload'.files = upload.files
      /\ upload' \in [id : 0 .. MaxStarts, files : 0 .. MaxFiles,
                      checks : 0 .. CHECK_COUNT]
  BY <1>1, FileAssumption
<1>3. UploadTypeOK' /\ NeverOverLimit' /\ FormShownWhenRoom' /\ DrawnOnce'
  BY <1>2 DEF AnswerEmpty, UploadInv, UploadTypeOK, NeverOverLimit,
              FormShownWhenRoom, Room, DrawnOnce
<1>4. UnderDialog' /\ OwnChains' /\ AllPast' /\ RoomKept'
  BY <1>2 DEF AnswerEmpty, Awaited, UploadInv, UnderDialog, OwnChains, AllPast,
              Past, RoomKept
<1> QED
  BY <1>3, <1>4 DEF UploadInv

(* Nothing is awaited any more, and nothing else changes that matters.      *)
LEMMA NoAnswerKeepsInv ==
    ASSUME UploadInv, AnswerGarbled \/ AnswerRefused
    PROVE  UploadInv'
<1>1. ~Awaited'
  BY DEF AnswerGarbled, AnswerRefused, Awaited
<1>2. UploadTypeOK'
  BY NoUploadType DEF AnswerGarbled, AnswerRefused, UploadInv, UploadTypeOK
<1>3. NeverOverLimit' /\ FormShownWhenRoom' /\ DrawnOnce'
  BY DEF AnswerGarbled, AnswerRefused, UploadInv, NeverOverLimit,
         FormShownWhenRoom, Room, DrawnOnce
<1>4. UnderDialog' /\ OwnChains' /\ AllPast' /\ RoomKept'
  BY <1>1 DEF AnswerGarbled, AnswerRefused, UploadInv, UnderDialog, OwnChains,
              AllPast, Past, RoomKept
<1> QED
  BY <1>2, <1>3, <1>4 DEF UploadInv

LEMMA AnswerOkKeepsInv ==
    ASSUME UploadInv, NEW files \in 0 .. MaxFiles, AnswerOk(files)
    PROVE  UploadInv'
<1> DEFINE chain == [id |-> upload.id, next |-> 1, files |-> files]
<1>1. ~Awaited'
  BY DEF AnswerOk, Awaited
<1>2. upload.id \in 1 .. starts /\ starts \in 0 .. MaxStarts
  BY DEF AnswerOk, UploadInv, UnderDialog, UploadTypeOK
<1> DEFINE Rest == /\ images' \in Seq(Image)
                  /\ upload' \in [id : 0 .. MaxStarts, files : 0 .. MaxFiles,
                                 checks : 0 .. CHECK_COUNT]
                  /\ progress' \in BOOLEAN /\ formShown' \in BOOLEAN
                  /\ crowded' \in BOOLEAN /\ garbled' \in BOOLEAN
                  /\ starts' \in 0 .. MaxStarts
                  /\ dropped' \subseteq Image
<1>3. Rest
  BY NoUploadType DEF AnswerOk, UploadInv, UploadTypeOK
<1>4. CASE files = 0
  <2>1. UploadTypeOK'
    BY <1>4, <1>3 DEF StartChain, AnswerOk, UploadInv, UploadTypeOK
  <2>2. NeverOverLimit' /\ FormShownWhenRoom' /\ DrawnOnce'
    BY DEF AnswerOk, UploadInv, NeverOverLimit, FormShownWhenRoom, Room, DrawnOnce
  <2>3. UnderDialog' /\ OwnChains' /\ AllPast' /\ RoomKept'
    BY <1>1, <1>4 DEF AnswerOk, StartChain, UploadInv, UnderDialog, OwnChains,
                      AllPast, Past, RoomKept
  <2> QED
    BY <2>1, <2>2, <2>3 DEF UploadInv
<1>5. CASE files # 0
  <2>1. chains' = chains \cup {chain} /\ files \in 1 .. MaxFiles
    BY <1>5, UploadBoundsAssumption DEF AnswerOk, StartChain
  <2>2. UploadTypeOK'
    <3>1. chain \in [id : Starts, next : 1 .. MaxFiles, files : 1 .. MaxFiles]
      BY <1>2, <2>1, UploadBoundsAssumption DEF Starts
    <3> QED
      BY <1>3, <2>1, <3>1 DEF UploadInv, UploadTypeOK
  <2>3. NeverOverLimit' /\ FormShownWhenRoom' /\ DrawnOnce'
    BY DEF AnswerOk, UploadInv, NeverOverLimit, FormShownWhenRoom, Room, DrawnOnce
  <2>4. UnderDialog' /\ OwnChains'
    BY <1>1, <1>2, <2>1 DEF AnswerOk, UploadInv, UnderDialog, OwnChains
  <2>5. AllPast'
    BY <1>1, <2>1 DEF AnswerOk, UploadInv, AllPast, Past
  <2>6. RoomKept'
    <3> SUFFICES ASSUME ~crowded
                 PROVE  /\ dropped = {} /\ chains' = {chain}
                        /\ Len(images) + files - 1 + 1 <= MaxFileNum
      BY <1>1 DEF AnswerOk, RoomKept
    <3>1. /\ dropped = {} /\ chains = {}
          /\ Len(images) + upload.files <= MaxFileNum
      BY DEF AnswerOk, UploadInv, RoomKept
    <3>2. Len(images) \in Nat /\ upload.files \in Nat /\ files <= upload.files
      BY LenProperties DEF AnswerOk, UploadInv, UploadTypeOK
    <3> QED
      BY <2>1, <3>1, <3>2, FileAssumption
  <2> QED
    BY <2>2, <2>3, <2>4, <2>5, <2>6 DEF UploadInv
<1> QED
  BY <1>4, <1>5

(* The image that a timer draws differs from all that were drawn or dropped *)
(* before, and its chain goes on after it.                                 *)
LEMMA DrawImageKeepsInv ==
    ASSUME UploadInv, NEW c \in chains, DrawImage(c)
    PROVE  UploadInv'
<1> DEFINE image == <<c.id, c.next>>
           rest == IF c.next = c.files THEN {} ELSE {[c EXCEPT !.next = c.next + 1]}
<1>1. /\ c \in [id : Starts, next : 1 .. MaxFiles, files : 1 .. MaxFiles]
      /\ c.next <= c.files /\ c.id <= starts
      /\ Awaited => c.id # upload.id
  BY DEF UploadInv, UploadTypeOK, OwnChains
<1>2. /\ c.id \in Starts /\ c.next \in 1 .. MaxFiles /\ c.files \in 1 .. MaxFiles
      /\ image \in Image
  BY <1>1 DEF Image
<1>3. /\ chains' = (chains \ {c}) \cup rest
      /\ Awaited' <=> Awaited
      /\ upload' = upload /\ starts' = starts /\ progress' = progress
  BY DEF DrawImage, Awaited
<1>4. \A d \in rest : /\ d \in [id : Starts, next : 1 .. MaxFiles, files : 1 .. MaxFiles]
                      /\ d.id = c.id /\ d.next = c.next + 1 /\ d.files = c.files
                      /\ d.next <= d.files /\ rest = {d}
  BY <1>1, <1>2, UploadBoundsAssumption
<1>5. images \in Seq(Image) /\ Len(images) \in Nat
  BY LenProperties DEF UploadInv, UploadTypeOK
<1>6. \/ /\ Len(images) < MaxFileNum
         /\ images' = Append(images, image) /\ images' \in Seq(Image)
         /\ Len(images') = Len(images) + 1
         /\ \A j \in 1 .. Len(images) + 1 :
              images'[j] = IF j <= Len(images) THEN images[j] ELSE image
         /\ dropped' = dropped
      \/ /\ ~(Len(images) < MaxFileNum)
         /\ images' = images /\ dropped' = dropped \cup {image}
  BY <1>2, <1>5, AppendProperties DEF DrawImage, Room
<1>7. UploadTypeOK'
  <2>1. images' \in Seq(Image) /\ dropped' \subseteq Image
    BY <1>2, <1>5, <1>6 DEF UploadInv, UploadTypeOK
  <2>2. chains' \subseteq [id : Starts, next : 1 .. MaxFiles, files : 1 .. MaxFiles]
    BY <1>3, <1>4 DEF UploadInv, UploadTypeOK
  <2>3. formShown' \in BOOLEAN
    BY DEF DrawImage, CheckMaxFileSize, Room
  <2> QED
    BY <2>1, <2>2, <2>3 DEF DrawImage, UploadInv, UploadTypeOK
<1>8. NeverOverLimit' /\ FormShownWhenRoom'
  <2>1. Len(images') <= MaxFileNum
    BY <1>5, <1>6, FileAssumption DEF UploadInv, NeverOverLimit
  <2> QED
    BY <2>1 DEF DrawImage, CheckMaxFileSize, NeverOverLimit, FormShownWhenRoom, Room
<1>9. UnderDialog'
  BY <1>3 DEF UploadInv, UnderDialog
<1>10. OwnChains'
  BY <1>1, <1>3, <1>4 DEF UploadInv, OwnChains
<1>11. \A d \in chains' : d.id = c.id => d.next = c.next + 1
  BY <1>3, <1>4 DEF UploadInv, OwnChains
<1>12. \A i \in Image : Past(i) => Past(i)'
  <2> SUFFICES ASSUME NEW i \in Image, Past(i)
               PROVE  Past(i)'
    OBVIOUS
  <2>1. i[2] \in Nat /\ c.next \in Nat
    BY <1>2 DEF Image
  <2>2. ASSUME NEW d \in chains', i[1] = d.id PROVE i[2] < d.next
    <3>1. CASE d \in chains
      BY <2>2, <3>1 DEF Past
    <3>2. CASE d \in rest
      <4>1. i[2] < c.next
        BY <1>4, <2>2, <3>2 DEF Past
      <4> QED
        BY <1>4, <2>1, <3>2, <4>1
    <3> QED
      BY <1>3, <2>2, <3>1, <3>2
  <2> QED
    BY <1>3, <2>2 DEF Past
<1>13. Past(image)'
  <2>1. image[1] = c.id /\ image[2] = c.next /\ c.next \in Nat
    BY <1>2
  <2> QED
    BY <1>1, <1>3, <1>11, <2>1 DEF Past
<1>14. /\ \A j \in 1 .. Len(images) : images[j] \in Image /\ images[j] # image
       /\ \A i \in dropped : i \in Image /\ i # image
  <2>1. ~Past(image)
    BY <1>2 DEF Past
  <2>2. /\ \A j \in 1 .. Len(images) : images[j] \in Image
        /\ \A i \in dropped : i \in Image
    BY <1>5, ElementOfSeq DEF UploadInv, UploadTypeOK
  <2> QED
    BY <2>1, <2>2 DEF UploadInv, AllPast
<1>15. AllPast'
  BY <1>5, <1>6, <1>12, <1>13, <1>14 DEF UploadInv, AllPast
<1>16. DrawnOnce'
  <2>1. CASE images' = images /\ dropped' = dropped \cup {image}
    BY <1>14, <2>1 DEF UploadInv, DrawnOnce
  <2>2. CASE /\ Len(images') = Len(images) + 1 /\ dropped' = dropped
             /\ \A j \in 1 .. Len(images) + 1 :
                  images'[j] = IF j <= Len(images) THEN images[j] ELSE image
    <3>1. ASSUME NEW j \in 1 .. Len(images'), NEW k \in 1 .. Len(images'), j # k
          PROVE  images'[j] # images'[k]
      BY <1>5, <1>14, <2>2, <3>1 DEF UploadInv, DrawnOnce
    <3>2. ASSUME NEW j \in 1 .. Len(images') PROVE images'[j] \notin dropped
      BY <1>5, <1>14, <2>2, <3>2 DEF UploadInv, DrawnOnce
    <3> QED
      BY <2>2, <3>1, <3>2 DEF DrawnOnce
  <2> QED
    BY <1>6, <2>1, <2>2
<1>17. RoomKept'
  <2> SUFFICES ASSUME ~crowded
               PROVE  /\ dropped' = {} /\ ~Awaited
                      /\ \A d \in chains' :
                           /\ chains' = {d}
                           /\ Len(images') + d.files - d.next + 1 <= MaxFileNum
    BY <1>3 DEF DrawImage, RoomKept
  <2>1. /\ dropped = {} /\ chains = {c} /\ ~Awaited
        /\ Len(images) + c.files - c.next + 1 <= MaxFileNum
    BY DEF UploadInv, RoomKept
  <2>2. Len(images) < MaxFileNum
    BY <1>1, <1>2, <1>5, <2>1, FileAssumption
  <2>3. Len(images') = Len(images) + 1 /\ dropped' = dropped
    BY <1>6, <2>2
  <2>4. chains' = rest
    BY <1>3, <2>1
  <2>5. ASSUME NEW d \in chains'
        PROVE  chains' = {d} /\ Len(images') + d.files - d.next + 1 <= MaxFileNum
    <3>1. rest = {d} /\ d.next = c.next + 1 /\ d.files = c.files
      BY <1>4, <2>4
    <3> QED
      BY <1>2, <1>5, <2>1, <2>3, <2>4, <3>1, FileAssumption
  <2> QED
    BY <2>1, <2>3, <2>5
<1> QED
  BY <1>7, <1>8, <1>9, <1>10, <1>15, <1>16, <1>17 DEF UploadInv

(* A call of setValue draws under a number of its own.                      *)
LEMMA SetValueKeepsInv ==
    ASSUME UploadInv, NEW files \in 1 .. MaxFiles, SetValue(files)
    PROVE  UploadInv'
<1> DEFINE chain == [id |-> starts + 1, next |-> 1, files |-> files]
<1>1. /\ starts \in Nat /\ starts' = starts + 1 /\ starts' \in 1 .. MaxStarts
      /\ starts' \in Starts
  BY UploadBoundsAssumption DEF SetValue, UploadInv, UploadTypeOK, Starts
<1>2. chains' = chains \cup {chain} /\ (Awaited' <=> Awaited) /\ upload' = upload
  BY UploadBoundsAssumption DEF SetValue, StartChain, Awaited
<1>3. UploadTypeOK'
  <2>1. chain \in [id : Starts, next : 1 .. MaxFiles, files : 1 .. MaxFiles]
    BY <1>1, UploadBoundsAssumption
  <2>2. crowded' \in BOOLEAN
    BY DEF SetValue
  <2> QED
    BY <1>1, <1>2, <2>1, <2>2 DEF SetValue, UploadInv, UploadTypeOK
<1>4. NeverOverLimit' /\ FormShownWhenRoom' /\ DrawnOnce'
  BY DEF SetValue, UploadInv, NeverOverLimit, FormShownWhenRoom, Room, DrawnOnce
<1>5. UnderDialog'
  BY <1>1, <1>2 DEF SetValue, UploadInv, UnderDialog
<1>6. OwnChains'
  <2>1. \A c \in chains : c.id \in Nat /\ c.id <= starts
    BY DEF UploadInv, UploadTypeOK, OwnChains, Starts
  <2>2. Awaited => upload.id # starts + 1
    BY <1>1 DEF UploadInv, UnderDialog
  <2> QED
    BY <1>1, <1>2, <2>1, <2>2 DEF UploadInv, OwnChains
<1>7. AllPast'
  <2>1. \A image \in Image : Past(image) => Past(image)'
    <3>1. \A image \in Image : image[1] \in Nat
      BY DEF Image, Starts
    <3> QED
      BY <1>1, <1>2, <3>1 DEF Past
  <2>2. /\ \A j \in 1 .. Len(images) : images[j] \in Image
        /\ \A image \in dropped : image \in Image
    BY ElementOfSeq DEF UploadInv, UploadTypeOK
  <2> QED
    BY <2>1, <2>2 DEF SetValue, UploadInv, AllPast
<1>8. RoomKept'
  <2> SUFFICES ASSUME ~crowded'
               PROVE  /\ dropped = {} /\ ~Awaited /\ chains' = {chain}
                      /\ Len(images) + files - 1 + 1 <= MaxFileNum
    BY <1>2 DEF SetValue, RoomKept
  <2>1. ~crowded /\ chains = {} /\ ~Awaited /\ Len(images) + files <= MaxFileNum
    BY DEF SetValue, FitsLimit
  <2>2. Len(images) \in Nat
    BY LenProperties DEF UploadInv, UploadTypeOK
  <2> QED
    BY <1>2, <2>1, <2>2 DEF UploadInv, RoomKept
<1> QED
  BY <1>3, <1>4, <1>5, <1>6, <1>7, <1>8 DEF UploadInv

(* A step of the user or of the page that leaves some of the images, each   *)
(* once, and looks at the form again, keeps the invariant.                 *)
LEMMA FewerOrMovedKeepsInv ==
    ASSUME UploadInv,
           images' \in Seq(Image), Len(images') <= Len(images),
           NEW p \in [1 .. Len(images') -> 1 .. Len(images)],
           \A j, k \in 1 .. Len(images') : j # k => p[j] # p[k],
           \A j \in 1 .. Len(images') : images'[j] = images[p[j]],
           formShown' = Room(images'),
           UNCHANGED <<chains, upload, progress, starts, crowded, garbled, dropped>>
    PROVE  UploadInv'
<1>1. Len(images) \in Nat /\ Len(images') \in Nat
  BY LenProperties DEF UploadInv, UploadTypeOK
<1>2. AllPast' /\ DrawnOnce'
  BY FewerOrMovedImages
<1>3. UploadTypeOK'
  BY DEF UploadInv, UploadTypeOK, Room
<1>4. NeverOverLimit' /\ FormShownWhenRoom'
  <2>1. Len(images') <= MaxFileNum
    BY <1>1, FileAssumption DEF UploadInv, NeverOverLimit
  <2>2. FormShownWhenRoom'
    BY DEF FormShownWhenRoom
  <2> QED
    BY <2>1, <2>2 DEF NeverOverLimit
<1>5. UnderDialog' /\ OwnChains'
  BY DEF UploadInv, UnderDialog, OwnChains, Awaited
<1>6. RoomKept'
  <2> SUFFICES ASSUME ~crowded
               PROVE  /\ dropped = {}
                      /\ Awaited => chains = {} /\ Len(images') + upload.files <= MaxFileNum
                      /\ \A c \in chains :
                           /\ chains = {c}
                           /\ Len(images') + c.files - c.next + 1 <= MaxFileNum
    BY DEF RoomKept, Awaited
  <2>1. upload.files \in Nat /\ \A c \in chains : c.files \in Nat /\ c.next \in Nat
    BY DEF UploadInv, UploadTypeOK
  <2> QED
    BY <1>1, <2>1, FileAssumption DEF UploadInv, RoomKept
<1> QED
  BY <1>2, <1>3, <1>4, <1>5, <1>6 DEF UploadInv

LEMMA ClearKeepsInv ==
    ASSUME UploadInv, Clear
    PROVE  UploadInv'
<1> DEFINE none == [j \in 1 .. 0 |-> 1]
<1>1. images' = <<>> /\ images' \in Seq(Image) /\ Len(images') = 0
  BY EmptySeq DEF Clear
<1>2. Len(images) \in Nat
  BY LenProperties DEF UploadInv, UploadTypeOK
<1>3. 1 .. Len(images') = {} /\ none \in [1 .. Len(images') -> 1 .. Len(images)]
  BY <1>1
<1>4. /\ formShown' = Room(images')
      /\ UNCHANGED <<chains, upload, progress, starts, crowded, garbled, dropped>>
  BY DEF Clear, CheckMaxFileSize
<1>5. /\ \A j, m \in 1 .. Len(images') : j # m => none[j] # none[m]
      /\ \A j \in 1 .. Len(images') : images'[j] = images[none[j]]
      /\ Len(images') <= Len(images)
  BY <1>1, <1>2, <1>3
<1> HIDE DEF none
<1> QED
  BY <1>1, <1>3, <1>4, <1>5, FewerOrMovedKeepsInv

LEMMA CloseFileKeepsInv ==
    ASSUME UploadInv, NEW k \in 1 .. Len(images), CloseFile(k)
    PROVE  UploadInv'
<1> DEFINE from == [j \in 1 .. Len(images) - 1 |-> IF j < k THEN j ELSE j + 1]
<1>1. images \in Seq(Image) /\ Len(images) \in Nat
  BY LenProperties DEF UploadInv, UploadTypeOK
<1>2. /\ images' \in Seq(Image) /\ Len(images') = Len(images) - 1
      /\ \A j \in 1 .. Len(images) - 1 : images'[j] = images[IF j < k THEN j ELSE j + 1]
  BY <1>1, WithoutProperties DEF CloseFile
<1>3. /\ from \in [1 .. Len(images') -> 1 .. Len(images)]
      /\ \A j, m \in 1 .. Len(images') : j # m => from[j] # from[m]
      /\ \A j \in 1 .. Len(images') : images'[j] = images[from[j]]
  BY <1>1, <1>2
<1>4. /\ formShown' = Room(images')
      /\ UNCHANGED <<chains, upload, progress, starts, crowded, garbled, dropped>>
  BY DEF CloseFile, CheckMaxFileSize
<1>5. Len(images') <= Len(images)
  BY <1>1, <1>2
<1> HIDE DEF from
<1> QED
  BY <1>2, <1>3, <1>4, <1>5, FewerOrMovedKeepsInv

LEMMA DropKeepsInv ==
    ASSUME UploadInv, NEW j \in 1 .. Len(images), NEW k \in 1 .. Len(images),
           j # k, Drop(j, k)
    PROVE  UploadInv'
<1> DEFINE swap == [i \in 1 .. Len(images) |-> IF i = j THEN k ELSE IF i = k THEN j ELSE i]
<1>1. images \in Seq(Image) /\ Len(images) \in Nat
  BY LenProperties DEF UploadInv, UploadTypeOK
<1>2. images[j] \in Image /\ images[k] \in Image
  BY <1>1, ElementOfSeq
<1>3. /\ images' \in Seq(Image) /\ Len(images') = Len(images)
      /\ \A i \in 1 .. Len(images) : images'[i] = images[swap[i]]
  <2> DEFINE once == [images EXCEPT ![j] = images[k]]
  <2>1. /\ once \in Seq(Image) /\ Len(once) = Len(images)
        /\ \A i \in 1 .. Len(images) : once[i] = IF i = j THEN images[k] ELSE images[i]
    BY <1>1, <1>2, ExceptSeq
  <2>2. images' = [once EXCEPT ![k] = images[j]]
    BY DEF Drop
  <2>3. /\ images' \in Seq(Image) /\ Len(images') = Len(once)
        /\ \A i \in 1 .. Len(once) : images'[i] = IF i = k THEN images[j] ELSE once[i]
    <3> HIDE DEF once
    <3> QED
      BY <1>2, <2>1, <2>2, ExceptSeq
  <2> QED
    BY <2>1, <2>3
<1>4. /\ swap \in [1 .. Len(images') -> 1 .. Len(images)]
      /\ \A i, m \in 1 .. Len(images') : i # m => swap[i] # swap[m]
  BY <1>1, <1>3
<1>5. /\ formShown' = Room(images')
      /\ UNCHANGED <<chains, upload, progress, starts, crowded, garbled, dropped>>
  BY <1>3 DEF Drop, Room, UploadInv, UploadTypeOK, FormShownWhenRoom
<1>6. Len(images') <= Len(images)
  BY <1>1, <1>3
<1> HIDE DEF swap
<1> QED
  BY <1>3, <1>4, <1>5, <1>6, FewerOrMovedKeepsInv

LEMMA UploadStep ==
    UploadInv /\ [UploadNext]_uploadVars => UploadInv'
<1> SUFFICES ASSUME UploadInv, [UploadNext]_uploadVars PROVE UploadInv'
  OBVIOUS
<1>1. CASE UNCHANGED uploadVars
  BY <1>1 DEF uploadVars, UploadInv, UploadTypeOK, NeverOverLimit,
              FormShownWhenRoom, Room, UnderDialog, OwnChains, AllPast, Past,
              DrawnOnce, RoomKept, Awaited
<1>2. CASE UploadNext
  BY <1>2, ChooseFilesKeepsInv, SetValueKeepsInv, AnswerEmptyKeepsInv,
     NoAnswerKeepsInv, AnswerOkKeepsInv, DrawImageKeepsInv, ClearKeepsInv,
     CloseFileKeepsInv, DropKeepsInv
  DEF UploadNext
<1> QED
  BY <1>1, <1>2

LEMMA UploadInvariant == UploadSpec => []UploadInv
BY InitUpload, UploadStep, PTL DEF UploadSpec
-----------------------------------------------------------------------------
(* The theorems.                                                           *)

(* However answers, timers, calls of setValue and the user's clicks overlap *)
(* there are never more images than maxFileNum.                            *)
THEOREM ImageLimitAlways == UploadSpec => []NeverOverLimit
<1>1. UploadInv => NeverOverLimit
  BY DEF UploadInv
<1> QED
  BY <1>1, UploadInvariant, PTL

(* The form that takes more images is visible exactly while there is room:  *)
(* every way to add or remove an image also shows or hides it.             *)
THEOREM FormShownAlways == UploadSpec => []FormShownWhenRoom
<1>1. UploadInv => FormShownWhenRoom
  BY DEF UploadInv
<1> QED
  BY <1>1, UploadInvariant, PTL

(* Any number of chains of timers, and of images moved and removed, draw no *)
(* image twice and none that was dropped.                                  *)
THEOREM DrawnOnceAlways == UploadSpec => []DrawnOnce
<1>1. UploadInv => DrawnOnce
  BY DEF UploadInv
<1> QED
  BY <1>1, UploadInvariant, PTL

(* What the change handler let through finds room, unless files were chosen *)
(* or values set while images were still to be drawn.                      *)
THEOREM AcceptedIsDrawnAlways == UploadSpec => []AcceptedIsDrawn
<1>1. UploadInv => AcceptedIsDrawn
  BY DEF UploadInv, RoomKept, AcceptedIsDrawn
<1> QED
  BY <1>1, UploadInvariant, PTL

(* The images of the list stay within the limit, each one once, and the     *)
(* form shows whether there is room, for any number of chains of timers.   *)
THEOREM ImagesAreRightAlways == UploadSpec => []ImagesAreRight
<1>1. NeverOverLimit /\ FormShownWhenRoom /\ AcceptedIsDrawn /\ DrawnOnce
        => ImagesAreRight
  BY DEF ImagesAreRight
<1> QED
  BY <1>1, ImageLimitAlways, FormShownAlways, AcceptedIsDrawnAlways, DrawnOnceAlways,
     PTL

-----------------------------------------------------------------------------
(* FormCombo: the box and the form agree on what is chosen.                 *)

(* Nothing is in a box without options, and a form that depends on the box  *)
(* has asked for its values only when the box has its options.              *)
BoxInv ==
    /\ box = "none" => form = "none"
    /\ box # "ready" => text = {} /\ active = {} /\ chosen = {}
    /\ formOpt.depends /\ form \in {"requested", "loaded"} => box = "ready"

ComboInv == ComboTypeOK /\ BoxInv /\ FormShowsValues

ComboSpec == ComboInit /\ [][ComboNext]_comboVars
-----------------------------------------------------------------------------
LEMMA InitCombo == ComboInit => ComboInv
<1> SUFFICES ASSUME ComboInit PROVE ComboInv
  OBVIOUS
<1>1. formOpt \in [multiple : BOOLEAN, depends : BOOLEAN]
  BY DEF ComboInit
<1>2. ComboTypeOK
  <2>1. 0 \in 0 .. MaxUses
    BY ComboAssumption
  <2> QED
    BY <1>1, <2>1, Zenon DEF ComboInit, ComboTypeOK
<1>3. BoxInv
  BY DEF ComboInit, BoxInv
<1>4. FormShowsValues
  BY DEF ComboInit, FormShowsValues, BoxAgrees, FormValueStands
<1> QED
  BY <1>2, <1>3, <1>4 DEF ComboInv

LEMMA ToggleKeepsOptions ==
    ASSUME NEW S \in SUBSET Options, NEW o \in Options
    PROVE  Toggle(S, o) \in SUBSET Options
BY DEF Toggle

LEMMA ComboKeepsTypes ==
    ASSUME ComboTypeOK, ComboNext
    PROVE  ComboTypeOK'
<1> DEFINE Opt  == formOpt' \in [multiple : BOOLEAN, depends : BOOLEAN]
           Flags == odd' \in BOOLEAN /\ untouched' \in BOOLEAN /\ unanswered' \in BOOLEAN
           Rest == /\ box' \in {"none", "loading", "ready", "failed"}
                   /\ form' \in {"none", "polling", "requested", "loaded", "lost"}
                   /\ text' \subseteq Options /\ active' \subseteq Options
                   /\ chosen' \subseteq Options /\ formValues' \subseteq Options \cup Unknown
                   /\ uses' \in 0 .. MaxUses
<1>0. ComboTypeOK
  OBVIOUS
<1>1. ASSUME NEW m \in BOOLEAN, NEW d \in BOOLEAN, OpenPage(m, d) PROVE Opt /\ Flags /\ Rest
  BY <1>0, <1>1 DEF OpenPage, ComboTypeOK
<1>2. CASE BoxFails \/ FormPoll \/ FormTooEarly \/ FormUnanswered
  <2> Opt /\ Flags /\ Rest
    BY <1>0, <1>2 DEF BoxFails, FormPoll, FormTooEarly, FormUnanswered, ComboTypeOK
  <2> QED
    BY DEF ComboTypeOK
<1>3. ASSUME NEW S \in Values, BoxLoads(S) \/ FormAnswered(S) \/ SetValues(S)
      PROVE  Opt /\ Flags /\ Rest
  <2>1. Opt
    BY <1>0, <1>3 DEF BoxLoads, FormAnswered, SetValues, Use, ComboTypeOK
  <2>2. Flags
    BY <1>0, <1>3, Zenon DEF BoxLoads, FormAnswered, SetValues, SelectValues, Use, ComboTypeOK
  <2>3. Rest
    <3>1. /\ S \subseteq Options \cup Unknown /\ SelectValues(S)
          /\ formValues' \in {formValues, S}
          /\ box' \in {box, "ready"} /\ form' \in {form, "loaded"}
          /\ uses' = uses \/ (uses < MaxUses /\ uses' = uses + 1)
      BY <1>3, Zenon DEF BoxLoads, FormAnswered, SetValues, Use, Values
    <3>2. /\ active' \subseteq Options /\ chosen' \subseteq Options
          /\ text' = text \/ text' \subseteq Options
      BY <3>1 DEF SelectValues
    <3> QED
      BY <1>0, <3>1, <3>2, ComboAssumption DEF ComboTypeOK
  <2> QED
    BY <2>1, <2>2, <2>3
<1>4. ASSUME NEW o \in Options, ClickItem(o) PROVE Opt /\ Flags /\ Rest
  <2>1. Opt
    BY <1>0, <1>4 DEF ClickItem, Use, ComboTypeOK
  <2>2. Flags
    BY <1>0, <1>4, Zenon DEF ClickItem, Use, ComboTypeOK
  <2>3. Toggle(active, o) \in SUBSET Options /\ Toggle(chosen, o) \in SUBSET Options
    BY <1>0, ToggleKeepsOptions DEF ComboTypeOK
  <2>4. Rest
    BY <1>0, <1>4, <2>3, ComboAssumption DEF ClickItem, Use, ComboTypeOK
  <2> QED
    BY <2>1, <2>2, <2>4
<1>7. ASSUME NEW v \in Options \cup Unknown, SetOneValue(v) PROVE Opt /\ Flags /\ Rest
  <2>1. Opt
    BY <1>0, <1>7 DEF SetOneValue, Use, ComboTypeOK
  <2>2. Flags
    <3>1. untouched' = FALSE /\ unanswered' = unanswered
      BY <1>7, Zenon DEF SetOneValue, Use
    <3>2. odd' \in BOOLEAN
      <4>1. CASE formOpt.multiple
        <5>1. SelectValues({v})
          BY <1>7, <4>1, Zenon DEF SetOneValue
        <5> QED
          BY <5>1, Zenon DEF SelectValues
      <4>2. CASE ~formOpt.multiple
        <5>1. odd' = (v \in Options)
          BY <1>7, <4>2, Zenon DEF SetOneValue
        <5>2. CASE v \in Options
          BY <5>1, <5>2, Zenon
        <5>3. CASE v \notin Options
          <6>1. (v \in Options) = FALSE
            BY <5>3
          <6> QED
            BY <5>1, <6>1
        <5> QED
          BY <5>2, <5>3, Zenon
      <4> QED
        BY <4>1, <4>2, Zenon
    <3> QED
      BY <1>0, <3>1, <3>2, Zenon DEF ComboTypeOK
  <2>3. Rest
    <3>1. /\ formValues' = formValues /\ box' = box /\ form' = form
          /\ uses < MaxUses /\ uses' = uses + 1
      BY <1>7, Zenon DEF SetOneValue, Use
    <3>2. /\ active' \subseteq Options /\ chosen' \subseteq Options
          /\ text' = text \/ text' \subseteq Options
      BY <1>7 DEF SetOneValue, SelectValues
    <3> QED
      BY <1>0, <3>1, <3>2, ComboAssumption DEF ComboTypeOK
  <2> QED
    BY <2>1, <2>2, <2>3
<1>5. CASE ClearBox \/ ResetForm
  <2>1. Opt
    BY <1>0, <1>5 DEF ClearBox, ResetForm, Use, ComboTypeOK
  <2>2. Flags
    BY <1>0, <1>5, Zenon DEF ClearBox, ResetForm, Use, ComboTypeOK
  <2>3. Rest
    BY <1>0, <1>5, ComboAssumption DEF ClearBox, ResetForm, Use, ComboTypeOK
  <2> QED
    BY <2>1, <2>2, <2>3 DEF ComboTypeOK
<1>6. Opt /\ Flags /\ Rest => ComboTypeOK'
  BY DEF ComboTypeOK
<1> QED
  BY <1>1, <1>2, <1>3, <1>4, <1>5, <1>6, <1>7, Zenon DEF ComboNext

LEMMA ComboKeepsShows ==
    ASSUME ComboInv, ComboNext
    PROVE  BoxInv' /\ FormShowsValues'
<1> DEFINE Goal == BoxInv' /\ FormShowsValues'
<1> USE DEF ComboInv, ComboTypeOK, BoxInv, FormShowsValues, BoxAgrees, FormValueStands, Empty
<1>1. ASSUME NEW m \in BOOLEAN, NEW d \in BOOLEAN, OpenPage(m, d) PROVE Goal
  BY <1>1 DEF OpenPage
<1>2. CASE BoxFails \/ FormPoll \/ FormTooEarly \/ FormUnanswered
  BY <1>2 DEF BoxFails, FormPoll, FormTooEarly, FormUnanswered
<1>3. ASSUME NEW S \in Values, BoxLoads(S) \/ FormAnswered(S) \/ SetValues(S) PROVE Goal
  BY <1>3 DEF BoxLoads, FormAnswered, SetValues, SelectValues, Empty, Use, Values
<1>4. ASSUME NEW o \in Options, ClickItem(o) PROVE Goal
  BY <1>4 DEF ClickItem, Use
<1>5. ASSUME NEW v \in Options \cup Unknown, SetOneValue(v) PROVE Goal
  BY <1>5 DEF SetOneValue, SelectValues, Empty, Use
<1>6. CASE ClearBox \/ ResetForm
  BY <1>6 DEF ClearBox, ResetForm, Use
<1> QED
  BY <1>1, <1>2, <1>3, <1>4, <1>5, <1>6 DEF ComboNext

LEMMA ComboStep == ComboInv /\ [ComboNext]_comboVars => ComboInv'
<1>1. CASE UNCHANGED comboVars
  BY <1>1 DEF ComboInv, ComboTypeOK, BoxInv, FormShowsValues, BoxAgrees, FormValueStands, Empty, comboVars
<1>2. CASE ComboNext
  BY <1>2, ComboKeepsTypes, ComboKeepsShows DEF ComboInv
<1> QED
  BY <1>1, <1>2

LEMMA ComboAlways == ComboSpec => []ComboInv
BY InitCombo, ComboStep, PTL DEF ComboSpec

(* Whatever the order of answers, clicks and assignments, the text of the   *)
(* box, its highlights and what was chosen last agree, unless one of three  *)
(* calls set only one of them; and a form that waited for its box and that  *)
(* nobody touched shows the options among the values it was sent, unless    *)
(* that was nothing or, to a single box, 0 or '' (bootstrap.combobox.js,    *)
(* bootstrap.form.js).                                                      *)
THEOREM FormKeepsValues == ComboSpec => []FormShowsValues
<1>1. ComboInv => FormShowsValues
  BY DEF ComboInv
<1> QED
  BY <1>1, ComboAlways, PTL
=============================================================================
