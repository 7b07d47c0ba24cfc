---------------------------- MODULE BloggingProofs ----------------------------
(***************************************************************************)
(* What Blogging promises, for any browsers and any number of rows and of   *)
(* lost answers.  The argument: a key is handed out once, so a row that is  *)
(* gone stays gone (NothingReturns); a form other than of a creation names  *)
(* a key handed out before it was opened (FormsNameKeys); hence what a      *)
(* request has found missing is still missing when it answers (GoneForms).  *)
(***************************************************************************)
EXTENDS Blogging, TLAPS

Handed(table) == IF table = "blog" THEN 1 .. nextBlog - 1 ELSE 1 .. nextPost - 1

\* The rows have keys that were handed out.
KeysHandedOut == blogs \subseteq 1 .. nextBlog - 1 /\ posts \subseteq 1 .. nextPost - 1

\* A form to edit or delete names a key that was handed out.
FormsNameKeys ==
    \A b \in Browsers : op[b].act # "create" => op[b].id \in Handed(op[b].table)

\* The requests that have found their row missing, or have deleted it.
FoundGone(b) ==
    \/ pc[b] \in {"check", "not found"}
    \/ pc[b] = "index" /\ op[b].act = "delete"

\* Their row is not there.
GoneForms ==
    \A b \in Browsers : FoundGone(b) => op[b].act # "create" /\ ~Exists(op[b])

\* The inductive invariant.
IInv ==
    /\ TypeOK /\ KeysHandedOut /\ PostsHaveBlogs
    /\ FormsNameKeys /\ GoneForms /\ NeverRethrown

\* What no step does: bring back a key.
NothingReturns ==
    /\ \A k \in 1 .. nextBlog - 1 : k \notin blogs => k \notin blogs'
    /\ \A k \in 1 .. nextPost - 1 : k \notin posts => k \notin posts'

TablesTyped ==
    /\ blogs \subseteq Ids
    /\ posts \subseteq Ids
    /\ blogOf \in [Ids -> Ids \cup {NoId}]
    /\ nextBlog \in 1 .. MaxId + 1
    /\ nextPost \in 1 .. MaxId + 1

-----------------------------------------------------------------------------
(* The tables: each statement keeps them consistent                        *)

TablesKept ==
    /\ TablesTyped' /\ KeysHandedOut' /\ PostsHaveBlogs' /\ NothingReturns
    /\ nextBlog <= nextBlog' /\ nextPost <= nextPost'

LEMMA KeysAreNumbers ==
    ASSUME TablesKept PROVE nextBlog' \in Nat /\ nextPost' \in Nat
<1>1. MaxId \in Nat BY BloggingConstants
<1>2. TablesTyped' BY DEF TablesKept
<1>3. nextBlog' \in 1 .. MaxId + 1 /\ nextPost' \in 1 .. MaxId + 1
      BY <1>2 DEF TablesTyped
<1> QED BY <1>1, <1>3

LEMMA InsertKeeps ==
    ASSUME TablesTyped, KeysHandedOut, PostsHaveBlogs,
           NEW o \in Operations, Insert(o)
    PROVE  TablesKept
<1>0. MaxId \in Nat BY BloggingConstants
<1>1. CASE /\ o.table = "blog" /\ nextBlog \in Ids
           /\ blogs' = blogs \cup {nextBlog}
           /\ nextBlog' = nextBlog + 1
           /\ UNCHANGED <<posts, blogOf, nextPost>>
  <2>1. TablesTyped' BY <1>0, <1>1 DEF TablesTyped, Ids
  <2>2. KeysHandedOut' BY <1>0, <1>1 DEF TablesTyped, KeysHandedOut, Ids
  <2>3. PostsHaveBlogs' BY <1>1 DEF PostsHaveBlogs
  <2>4. NothingReturns BY <1>0, <1>1 DEF NothingReturns, TablesTyped, Ids
  <2> QED BY <1>0, <1>1, <2>1, <2>2, <2>3, <2>4 DEF TablesKept, TablesTyped
<1>2. CASE /\ o.table = "post" /\ nextPost \in Ids
           /\ posts' = posts \cup {nextPost}
           /\ blogOf' = [blogOf EXCEPT ![nextPost] = o.blog]
           /\ nextPost' = nextPost + 1
           /\ UNCHANGED <<blogs, nextBlog>>
  <2>0. o.blog \in blogs BY <1>2 DEF Insert, KeyHolds
  <2>1. TablesTyped'
    <3>1. blogOf' \in [Ids -> Ids \cup {NoId}] BY <1>2, <2>0 DEF TablesTyped
    <3>2. posts' \subseteq Ids BY <1>2 DEF TablesTyped
    <3>3. nextPost' \in 1 .. MaxId + 1 BY <1>0, <1>2 DEF TablesTyped, Ids
    <3> QED BY <1>2, <3>1, <3>2, <3>3 DEF TablesTyped
  <2>2. KeysHandedOut' BY <1>0, <1>2 DEF TablesTyped, KeysHandedOut, Ids
  <2>3. PostsHaveBlogs' BY <1>2, <2>0 DEF PostsHaveBlogs, TablesTyped
  <2>4. NothingReturns BY <1>0, <1>2 DEF NothingReturns, TablesTyped, Ids
  <2> QED BY <1>0, <1>2, <2>1, <2>2, <2>3, <2>4 DEF TablesKept, TablesTyped
<1> QED BY <1>1, <1>2 DEF Insert

LEMMA UpdateKeeps ==
    ASSUME TablesTyped, KeysHandedOut, PostsHaveBlogs,
           NEW o \in Operations, UpdateRow(o)
    PROVE  TablesKept
<1>0. MaxId \in Nat BY BloggingConstants
<1>1. UNCHANGED <<blogs, posts, nextBlog, nextPost>> BY DEF UpdateRow
<1>2. CASE o.table = "post"
  <2>0. o.blog \in blogs /\ blogOf' = [blogOf EXCEPT ![o.id] = o.blog]
        BY <1>2 DEF UpdateRow, KeyHolds
  <2>1. TablesTyped' BY <1>1, <2>0 DEF TablesTyped
  <2>2. PostsHaveBlogs' BY <1>1, <2>0 DEF PostsHaveBlogs, TablesTyped
  <2> QED BY <1>0, <1>1, <2>1, <2>2
          DEF TablesKept, TablesTyped, KeysHandedOut, NothingReturns
<1>3. CASE o.table # "post"
  <2>0. blogOf' = blogOf BY <1>3 DEF UpdateRow
  <2> QED BY <1>0, <1>1, <2>0
          DEF TablesKept, TablesTyped, KeysHandedOut, NothingReturns, PostsHaveBlogs
<1> QED BY <1>2, <1>3

LEMMA DeleteKeeps ==
    ASSUME TablesTyped, KeysHandedOut, PostsHaveBlogs,
           NEW o \in Operations, DeleteRow(o)
    PROVE  TablesKept /\ ~Exists(o)'
<1>0. MaxId \in Nat BY BloggingConstants
<1>1. UNCHANGED <<blogOf, nextBlog, nextPost>> BY DEF DeleteRow
<1>2. blogs' \subseteq blogs /\ posts' \subseteq posts BY DEF DeleteRow
<1>3. PostsHaveBlogs'
  <2>1. CASE o.table = "blog" BY <2>1, <1>1 DEF DeleteRow, PostsHaveBlogs
  <2>2. CASE o.table # "blog" BY <2>2, <1>1 DEF DeleteRow, PostsHaveBlogs
  <2> QED BY <2>1, <2>2
<1>4. ~Exists(o)'
  <2>1. CASE o.table = "blog" BY <2>1 DEF DeleteRow, Exists, Rows
  <2>2. CASE o.table # "blog" BY <2>2 DEF DeleteRow, Exists, Rows
  <2> QED BY <2>1, <2>2
<1>5. TablesTyped' /\ KeysHandedOut' BY <1>1, <1>2 DEF TablesTyped, KeysHandedOut
<1>6. NothingReturns BY <1>2 DEF NothingReturns
<1> QED BY <1>0, <1>1, <1>3, <1>4, <1>5, <1>6 DEF TablesKept, TablesTyped

\* A transaction keeps the tables consistent; a deletion removes its row.
LEMMA CommitKeeps ==
    ASSUME TablesTyped, KeysHandedOut, PostsHaveBlogs,
           NEW o \in Operations, Commit(o)
    PROVE  TablesKept /\ (o.act = "delete" => ~Exists(o)')
BY InsertKeeps, UpdateKeeps, DeleteKeeps DEF Commit

LEMMA TablesUnchanged ==
    ASSUME TablesTyped, KeysHandedOut, PostsHaveBlogs,
           UNCHANGED <<blogs, posts, blogOf, nextBlog, nextPost>>
    PROVE  TablesKept
<1>0. MaxId \in Nat BY BloggingConstants
<1> QED BY <1>0 DEF TablesKept, TablesTyped, KeysHandedOut, PostsHaveBlogs, NothingReturns

-----------------------------------------------------------------------------
(* The requests                                                            *)

\* What a request has found gone stays so while others change the tables.
LEMMA StaysGone ==
    ASSUME TablesTyped, NothingReturns,
           nextBlog <= nextBlog', nextPost <= nextPost',
           nextBlog' \in Nat, nextPost' \in Nat,
           NEW o \in Operations, o.id \in Handed(o.table)
    PROVE  /\ o.id \in Handed(o.table)'
           /\ ~Exists(o) => ~Exists(o)'
<1>0. MaxId \in Nat BY BloggingConstants
<1>1. nextBlog \in Nat /\ nextPost \in Nat BY <1>0 DEF TablesTyped
<1>2. CASE o.table = "blog"
  <2>1. o.id \in 1 .. nextBlog - 1 BY <1>2 DEF Handed
  <2>2. o.id \in 1 .. nextBlog' - 1 BY <1>1, <2>1
  <2>3. ~Exists(o) => ~Exists(o)' BY <1>2, <2>1 DEF Exists, Rows, NothingReturns
  <2> QED BY <1>2, <2>2, <2>3 DEF Handed
<1>3. CASE o.table # "blog"
  <2>1. o.id \in 1 .. nextPost - 1 BY <1>3 DEF Handed
  <2>2. o.id \in 1 .. nextPost' - 1 BY <1>1, <2>1
  <2>3. ~Exists(o) => ~Exists(o)' BY <1>3, <2>1 DEF Exists, Rows, NothingReturns
  <2> QED BY <1>3, <2>2, <2>3 DEF Handed
<1> QED BY <1>2, <1>3

\* A row that is there has a key that was handed out.
LEMMA RowsHanded ==
    ASSUME KeysHandedOut, NEW o \in Operations, Exists(o)
    PROVE  o.id \in Handed(o.table)
BY DEF KeysHandedOut, Exists, Rows, Handed

\* The initial state.
LEMMA InitInvariant == Init => IInv
<1> SUFFICES ASSUME Init PROVE IInv OBVIOUS
<1>0. MaxId \in Nat /\ MaxLost \in Nat BY BloggingConstants
<1>1. Form("create", "blog", NoId, NoId) \in Operations
      BY DEF Form, Operations, Acts
<1>2. \A b \in Browsers : pc[b] = "idle" /\ op[b] = Form("create", "blog", NoId, NoId)
      BY DEF Init
<1>3. TypeOK
  <2>1. pc \in [Browsers -> {"idle", "page", "find", "save", "check", "index",
                             "not found", "error", "rethrown"}] BY DEF Init
  <2>2. op \in [Browsers -> Operations] BY <1>1 DEF Init
  <2>3. TablesTyped /\ lost \in 0 .. MaxLost BY <1>0 DEF Init, TablesTyped, Ids
  <2> QED BY <2>1, <2>2, <2>3 DEF TypeOK, TablesTyped
<1>4. KeysHandedOut /\ PostsHaveBlogs BY DEF Init, KeysHandedOut, PostsHaveBlogs
<1>5. FormsNameKeys BY <1>2 DEF FormsNameKeys, Form
<1>6. GoneForms BY <1>2 DEF GoneForms, FoundGone, Form
<1>7. NeverRethrown BY <1>2 DEF NeverRethrown
<1> QED BY <1>3, <1>4, <1>5, <1>6, <1>7 DEF IInv

\* What is left to show of a step of b, once the tables are known to be kept
\* and the requests of the others untouched.
LEMMA OneRequest ==
    ASSUME IInv, TablesKept, lost' \in 0 .. MaxLost,
           NEW b \in Browsers,
           NEW where \in {"idle", "page", "find", "save", "check", "index",
                          "not found", "error"},
           NEW o \in Operations,
           pc' = [pc EXCEPT ![b] = where],
           op' = [op EXCEPT ![b] = o],
           o.act # "create" => (o.id \in Handed(o.table))',
           \/ where \in {"check", "not found"}
           \/ where = "index" /\ o.act = "delete"
           => o.act # "create" /\ ~Exists(o)'
    PROVE  IInv'
<1>0. MaxId \in Nat BY BloggingConstants
<1>1. TypeOK'
  <2>1. pc' \in [Browsers -> {"idle", "page", "find", "save", "check", "index",
                              "not found", "error", "rethrown"}] BY DEF IInv, TypeOK
  <2>2. op' \in [Browsers -> Operations] BY DEF IInv, TypeOK
  <2> QED BY <2>1, <2>2 DEF TablesKept, TablesTyped, TypeOK
<1>2. \A c \in Browsers : c # b => pc'[c] = pc[c] /\ op'[c] = op[c]
      BY DEF IInv, TypeOK
<1>3. pc'[b] = where /\ op'[b] = o BY DEF IInv, TypeOK
<1>4. TablesTyped /\ \A c \in Browsers : op[c] \in Operations
      BY DEF IInv, TypeOK, TablesTyped
<1>5. nextBlog' \in Nat /\ nextPost' \in Nat
      BY KeysAreNumbers
<1>6. \A c \in Browsers : op[c].act # "create" =>
         /\ (op[c].id \in Handed(op[c].table)) 
         /\ op[c] \in Operations
      BY <1>4 DEF IInv, FormsNameKeys
<1>7. ASSUME NEW c \in Browsers, c # b, op[c].act # "create"
      PROVE  /\ (op[c].id \in Handed(op[c].table))'
             /\ ~Exists(op[c]) => ~Exists(op[c])'
  <2> DEFINE q == op[c]
  <2>1. q \in Operations /\ q.id \in Handed(q.table) BY <1>6, <1>7
  <2>2. op'[c] = q BY <1>2, <1>7
  <2> HIDE DEF q
  <2>3. ASSUME NEW r \in Operations, r.id \in Handed(r.table)
        PROVE  /\ r.id \in (IF r.table = "blog" THEN 1 .. nextBlog' - 1
                                               ELSE 1 .. nextPost' - 1)
               /\ r.id \notin Rows(r.table) =>
                  r.id \notin (IF r.table = "blog" THEN blogs' ELSE posts')
        BY <1>4, <1>5, <2>3, StaysGone DEF TablesKept, Handed, Exists, Rows
  <2>4. /\ q.id \in (IF q.table = "blog" THEN 1 .. nextBlog' - 1
                                         ELSE 1 .. nextPost' - 1)
        /\ q.id \notin Rows(q.table) =>
           q.id \notin (IF q.table = "blog" THEN blogs' ELSE posts')
        BY <2>1, <2>3
  <2> QED BY <2>2, <2>4 DEF Handed, Exists, Rows, q
<1>8. FormsNameKeys'
  <2> SUFFICES ASSUME NEW c \in Browsers, op'[c].act # "create"
               PROVE  (op[c].id \in Handed(op[c].table))'
      BY DEF FormsNameKeys
  <2>1. CASE c = b BY <1>3, <2>1 DEF Handed
  <2>2. CASE c # b BY <1>2, <1>7, <2>2
  <2> QED BY <2>1, <2>2
<1>9. GoneForms'
  <2> SUFFICES ASSUME NEW c \in Browsers, FoundGone(c)'
               PROVE  op'[c].act # "create" /\ ~Exists(op[c])'
      BY DEF GoneForms
  <2>1. CASE c = b BY <1>3, <2>1 DEF FoundGone, Exists, Rows
  <2>2. CASE c # b
    <3>1. FoundGone(c) BY <1>2, <2>2 DEF FoundGone
    <3>2. op[c].act # "create" /\ ~Exists(op[c]) BY <3>1 DEF IInv, GoneForms
    <3> QED BY <1>2, <1>7, <2>2, <3>2
  <2> QED BY <2>1, <2>2
<1>10. NeverRethrown' BY <1>2, <1>3 DEF IInv, NeverRethrown
<1> QED BY <1>1, <1>8, <1>9, <1>10 DEF IInv, TablesKept

-----------------------------------------------------------------------------
(* The steps                                                               *)

\* A step of b that leaves the tables alone: b goes on to `where'.
LEMMA OnlyTheRequest ==
    ASSUME IInv, UNCHANGED tables, NEW b \in Browsers,
           NEW where \in {"idle", "page", "find", "save", "check", "index",
                          "not found", "error"},
           Goto(b, where), UNCHANGED op,
           \/ where \in {"check", "not found"}
           \/ where = "index" /\ op[b].act = "delete"
           => op[b].act # "create" /\ ~Exists(op[b])
    PROVE  IInv' /\ NothingReturns
<1>1. TablesKept BY TablesUnchanged DEF IInv, TypeOK, TablesTyped, tables
<1>2. lost' \in 0 .. MaxLost BY DEF IInv, TypeOK, tables
<1>3. op[b] \in Operations /\ op' = [op EXCEPT ![b] = op[b]] BY DEF IInv, TypeOK
<1>4. pc' = [pc EXCEPT ![b] = where] BY DEF Goto
<1>5. op[b].act # "create" =>
        op[b].id \in (IF op[b].table = "blog" THEN 1 .. nextBlog' - 1
                                              ELSE 1 .. nextPost' - 1)
      BY DEF IInv, FormsNameKeys, Handed, tables
<1>6. \/ where \in {"check", "not found"}
      \/ where = "index" /\ op[b].act = "delete"
      => op[b].act # "create"
         /\ op[b].id \notin (IF op[b].table = "blog" THEN blogs' ELSE posts')
      BY DEF Exists, Rows, tables
<1>7. ASSUME NEW o \in Operations, o = op[b] PROVE IInv'
  <2>1. o.act # "create" => (o.id \in Handed(o.table))'
        BY <1>5, <1>7 DEF Handed
  <2>2. \/ where \in {"check", "not found"}
        \/ where = "index" /\ o.act = "delete"
        => o.act # "create" /\ ~Exists(o)'
        BY <1>6, <1>7 DEF Exists, Rows
  <2>3. op' = [op EXCEPT ![b] = o] BY <1>3, <1>7
  <2> QED BY <1>1, <1>2, <1>4, <2>1, <2>2, <2>3, OneRequest
<1>8. NothingReturns BY <1>1 DEF TablesKept
<1> QED BY <1>3, <1>7, <1>8

LEMMA OpenKeeps ==
    ASSUME IInv, NEW b \in Browsers, NEW o \in Operations, Open(b, o)
    PROVE  IInv' /\ NothingReturns
<1>1. UNCHANGED tables BY DEF Open
<1>2. TablesKept BY <1>1, TablesUnchanged DEF IInv, TypeOK, TablesTyped, tables
<1>3. lost' \in 0 .. MaxLost BY <1>1 DEF IInv, TypeOK, tables
<1>4. pc' = [pc EXCEPT ![b] = "page"] /\ op' = [op EXCEPT ![b] = o]
      BY DEF Open, Goto
<1>5. o.act # "create" => o.id \in Handed(o.table) BY RowsHanded DEF Open, IInv
<1>6. o.act # "create" => (o.id \in Handed(o.table))'
      BY <1>1, <1>5 DEF Handed, tables
<1>7. IInv' BY <1>2, <1>3, <1>4, <1>6, OneRequest
<1> QED BY <1>2, <1>7 DEF TablesKept

\* The transaction of b commits: b answers, or tries again.
LEMMA SaveKeeps ==
    ASSUME IInv, NEW b \in Browsers, Save(b)
    PROVE  IInv' /\ NothingReturns
<1>0. MaxLost \in Nat BY BloggingConstants
<1>1. TablesTyped /\ op[b] \in Operations /\ pc[b] = "save" /\ op' = op
      BY DEF IInv, TypeOK, TablesTyped, Save
<1>2. op' = [op EXCEPT ![b] = op[b]] BY <1>1 DEF IInv, TypeOK
<1>3. op[b].act # "create" => op[b].id \in Handed(op[b].table)
      BY DEF IInv, FormsNameKeys
<1>4. lost' \in 0 .. MaxLost
  <2>1. lost \in 0 .. MaxLost BY DEF IInv, TypeOK
  <2>2. lost' = lost \/ (lost < MaxLost /\ lost' = lost + 1) BY DEF Save
  <2> QED BY <1>0, <2>1, <2>2
<1>5. PICK where \in {"index", "save"} : pc' = [pc EXCEPT ![b] = where]
  <2>1. CASE Goto(b, "index") BY <2>1 DEF Goto
  <2>2. CASE UNCHANGED pc BY <1>1, <2>2 DEF IInv, TypeOK
  <2> QED BY <2>1, <2>2 DEF Save
<1>6. ASSUME NEW o \in Operations, o = op[b] PROVE IInv' /\ NothingReturns
  <2>1. Commit(o) BY <1>6 DEF Save
  <2>2. TablesKept /\ (o.act = "delete" => ~Exists(o)')
        BY <1>1, <2>1, CommitKeeps DEF IInv
  <2>3. nextBlog' \in Nat /\ nextPost' \in Nat BY <2>2, KeysAreNumbers
  <2>4. o.act # "create" => (o.id \in Handed(o.table))'
    <3>1. o.act # "create" => o.id \in Handed(o.table) BY <1>3, <1>6
    <3> QED BY <1>1, <2>2, <2>3, <3>1, StaysGone DEF TablesKept
  <2>5. op' = [op EXCEPT ![b] = o] BY <1>2, <1>6
  <2>6. \/ where \in {"check", "not found"}
        \/ where = "index" /\ o.act = "delete"
        => o.act # "create" /\ ~Exists(o)'
        BY <2>2
  <2>7. IInv' BY <1>4, <1>5, <2>2, <2>4, <2>5, <2>6, OneRequest
  <2> QED BY <2>2, <2>7 DEF TablesKept
<1> QED BY <1>1, <1>6

\* Each step keeps the invariant and brings no row back.
LEMMA NextInvariant == IInv /\ [Next]_vars => IInv' /\ NothingReturns
<1> SUFFICES ASSUME IInv, [Next]_vars PROVE IInv' /\ NothingReturns OBVIOUS
<1>1. ASSUME NEW b \in Browsers, NEW o \in Operations, Open(b, o)
      PROVE  IInv' /\ NothingReturns
      BY <1>1, OpenKeeps
<1>2. ASSUME NEW b \in Browsers, Post(b) PROVE IInv' /\ NothingReturns
  <2>1. UNCHANGED tables /\ UNCHANGED op BY <1>2 DEF Post
  <2>2. Goto(b, "find") \/ Goto(b, "save") BY <1>2 DEF Post
  <2> QED BY <2>1, <2>2, OnlyTheRequest
<1>3. ASSUME NEW b \in Browsers, Find(b) PROVE IInv' /\ NothingReturns
  <2>1. UNCHANGED tables /\ UNCHANGED op BY <1>3 DEF Find
  <2>2. Goto(b, "save") \/ Goto(b, "error") BY <1>3 DEF Find
  <2> QED BY <2>1, <2>2, OnlyTheRequest
<1>4. ASSUME NEW b \in Browsers, Save(b) PROVE IInv' /\ NothingReturns
      BY <1>4, SaveKeeps
<1>5. ASSUME NEW b \in Browsers, NoRow(b) PROVE IInv' /\ NothingReturns
  <2>1. UNCHANGED tables /\ UNCHANGED op /\ Goto(b, "check") BY <1>5 DEF NoRow
  <2>2. op[b].act # "create" /\ ~Exists(op[b]) BY <1>5 DEF NoRow
  <2> QED BY <2>1, <2>2, OnlyTheRequest
<1>6. ASSUME NEW b \in Browsers, SaveThrows(b) PROVE IInv' /\ NothingReturns
  <2>1. UNCHANGED tables /\ UNCHANGED op /\ Goto(b, "error") BY <1>6 DEF SaveThrows
  <2> QED BY <2>1, OnlyTheRequest
<1>7. ASSUME NEW b \in Browsers, Check(b) PROVE IInv' /\ NothingReturns
  <2>1. UNCHANGED tables /\ UNCHANGED op BY <1>7 DEF Check
  <2>2. op[b].act # "create" /\ ~Exists(op[b])
        BY <1>7 DEF Check, IInv, GoneForms, FoundGone
  <2>3. Goto(b, "not found") BY <1>7, <2>2 DEF Check
  <2> QED BY <2>1, <2>2, <2>3, OnlyTheRequest
<1>8. CASE UNCHANGED vars
  <2>1. IInv'
    <3>1. TypeOK' BY <1>8 DEF IInv, TypeOK, vars
    <3>2. KeysHandedOut' /\ PostsHaveBlogs'
          BY <1>8 DEF IInv, KeysHandedOut, PostsHaveBlogs, vars
    <3>3. FormsNameKeys' BY <1>8 DEF IInv, FormsNameKeys, Handed, vars
    <3>4. GoneForms' BY <1>8 DEF IInv, GoneForms, FoundGone, Exists, Rows, vars
    <3>5. NeverRethrown' BY <1>8 DEF IInv, NeverRethrown, vars
    <3> QED BY <3>1, <3>2, <3>3, <3>4, <3>5 DEF IInv
  <2>2. NothingReturns BY <1>8 DEF NothingReturns, vars
  <2> QED BY <2>1, <2>2
<1> QED BY <1>1, <1>2, <1>3, <1>4, <1>5, <1>6, <1>7, <1>8 DEF Next

-----------------------------------------------------------------------------
(* The theorems                                                            *)

\* The inductive invariant holds in every reachable state.
THEOREM Invariance == Spec => []IInv
<1>1. IInv /\ [Next]_vars => IInv' BY NextInvariant
<1> QED BY InitInvariant, <1>1, PTL DEF Spec

\* The variables keep their types.
THEOREM TypeCorrect == Spec => []TypeOK
<1>1. IInv => TypeOK BY DEF IInv
<1> QED BY Invariance, <1>1, PTL

\* No interleaving of the handlers leaves a post without its blog.
THEOREM NoOrphans == Spec => []PostsHaveBlogs
<1>1. IInv => PostsHaveBlogs BY DEF IInv
<1> QED BY Invariance, <1>1, PTL

\* "Not found" and a finished Delete stay true answers.
THEOREM Truthful == Spec => []AnswersAreTrue
<1>1. IInv => AnswersAreTrue BY DEF IInv, GoneForms, FoundGone, AnswersAreTrue
<1> QED BY Invariance, <1>1, PTL

\* The throw of both Edit handlers is never reached.
THEOREM RethrowIsDead == Spec => []NeverRethrown
<1>1. IInv => NeverRethrown BY DEF IInv
<1> QED BY Invariance, <1>1, PTL

\* No request brings back a row that was deleted.
THEOREM NothingComesBack == Spec => DeletedForGood
<1>1. IInv /\ [Next]_vars => [NothingReturns]_vars BY NextInvariant
<1> QED BY Invariance, <1>1, PTL DEF Spec, DeletedForGood, NothingReturns
=============================================================================
