------------------------------ MODULE Blogging -------------------------------
(***************************************************************************)
(* database/mssql/entityframework_mssql, WebApplicationEF: the controllers  *)
(* of blogs and posts over one SQL Server database.  A browser opens a page *)
(* that shows a row and posts it back later; in between others change or    *)
(* delete the row, or the blog a post is to belong to.                      *)
(*                                                                          *)
(* A request runs in steps: what it reads, what it saves, what it reads     *)
(* again.  SaveChangesAsync is one transaction, which EnableRetryOnFailure  *)
(* repeats when the connection breaks, also when it broke after the commit. *)
(* The columns that nothing depends on are left out.                        *)
(***************************************************************************)
EXTENDS Naturals

CONSTANTS Browsers,   \* the browsers, each with one page and one request
          MaxId,      \* bound: rows ever inserted into each table
          MaxLost     \* bound: commits whose answer is lost

ASSUME BloggingConstants == MaxId \in Nat /\ MaxLost \in Nat

Ids == 1 .. MaxId
NoId == 0

VARIABLES
    blogs,      \* the keys of the table Blogs
    posts,      \* the keys of the table Posts
    blogOf,     \* Posts.BlogId of each key of Posts
    nextBlog,   \* the identity column of Blogs: the next key
    nextPost,   \* the identity column of Posts
    lost,       \* commits whose answer was lost so far
    pc,         \* pc[b]: where the request of the browser b stands
    op          \* op[b]: the form of b: what it does, the row, the post's blog

vars == <<blogs, posts, blogOf, nextBlog, nextPost, lost, pc, op>>
tables == <<blogs, posts, blogOf, nextBlog, nextPost, lost>>

Acts == {"create", "edit", "delete"}
Operations == [act : Acts, table : {"blog", "post"}, id : Ids \cup {NoId},
               blog : Ids \cup {NoId}]
Form(act, table, id, blog) ==
    [act |-> act, table |-> table, id |-> id, blog |-> blog]

Rows(table) == IF table = "blog" THEN blogs ELSE posts
Exists(o) == o.id \in Rows(o.table)

\* Mutant: the identity columns count from zero.
FromZero ==
    /\ blogs = {} /\ posts = {} /\ blogOf = [p \in Ids |-> NoId]
    /\ nextBlog = 0 /\ nextPost = 0 /\ lost = 0
    /\ pc = [b \in Browsers |-> "idle"]
    /\ op = [b \in Browsers |-> Form("create", "blog", NoId, NoId)]

Init ==
    /\ blogs = {}
    /\ posts = {}
    /\ blogOf = [p \in Ids |-> NoId]
    /\ nextBlog = 1
    /\ nextPost = 1
    /\ lost = 0
    /\ pc = [b \in Browsers |-> "idle"]
    /\ op = [b \in Browsers |-> Form("create", "blog", NoId, NoId)]

Goto(b, where) == pc' = [pc EXCEPT ![b] = where]

-----------------------------------------------------------------------------
(* The pages                                                               *)

\* GET of a page: the row is there, or the page is not shown.  The list of a
\* post's page holds the blogs of that moment; the form takes one of them.
Open(b, o) ==
    /\ pc[b] \in {"idle", "index", "not found", "error", "rethrown"}
    /\ o.act = "create" => o.id = NoId
    /\ o.act # "create" => Exists(o)
    /\ IF o.table = "post" /\ o.act # "delete" THEN o.blog \in blogs ELSE o.blog = NoId
    /\ op' = [op EXCEPT ![b] = o]
    /\ Goto(b, "page")
    /\ UNCHANGED tables

\* The form comes back, some time later.
Post(b) ==
    /\ pc[b] = "page"
    /\ Goto(b, IF op[b].act = "delete" THEN "find" ELSE "save")
    /\ UNCHANGED <<tables, op>>

-----------------------------------------------------------------------------
(* The POST handlers                                                       *)

\* DeleteConfirmed: FindAsync, whose null makes Remove throw.
Find(b) ==
    /\ pc[b] = "find"
    /\ Goto(b, IF Exists(op[b]) THEN "save" ELSE "error")
    /\ UNCHANGED <<tables, op>>

\* The foreign key of a post that is inserted or updated.
KeyHolds(o) == o.table = "post" => o.blog \in blogs

\* INSERT: the row gets the next key.
Insert(o) ==
    /\ KeyHolds(o)
    /\ \/ /\ o.table = "blog" /\ nextBlog \in Ids
          /\ blogs' = blogs \cup {nextBlog}
          /\ nextBlog' = nextBlog + 1
          /\ UNCHANGED <<posts, blogOf, nextPost>>
       \/ /\ o.table = "post" /\ nextPost \in Ids
          /\ posts' = posts \cup {nextPost}
          /\ blogOf' = [blogOf EXCEPT ![nextPost] = o.blog]
          /\ nextPost' = nextPost + 1
          /\ UNCHANGED <<blogs, nextBlog>>

\* Mutant: the row is inserted again when it is not there.
Upsert(o) ==
    /\ KeyHolds(o)
    /\ IF o.table = "blog"
       THEN blogs' = blogs \cup {o.id} /\ UNCHANGED <<posts, blogOf>>
       ELSE /\ posts' = posts \cup {o.id}
            /\ blogOf' = [blogOf EXCEPT ![o.id] = o.blog]
            /\ UNCHANGED blogs
    /\ UNCHANGED <<nextBlog, nextPost>>

\* UPDATE of the row, which is there.
UpdateRow(o) ==
    /\ Exists(o) /\ KeyHolds(o)
    /\ blogOf' = IF o.table = "post" THEN [blogOf EXCEPT ![o.id] = o.blog] ELSE blogOf
    /\ UNCHANGED <<blogs, posts, nextBlog, nextPost>>

\* Mutant: ON DELETE NO ACTION, not enforced.
DeleteOnly(o) ==
    /\ Exists(o)
    /\ IF o.table = "blog"
       THEN blogs' = blogs \ {o.id} /\ UNCHANGED posts
       ELSE posts' = posts \ {o.id} /\ UNCHANGED blogs
    /\ UNCHANGED <<blogOf, nextBlog, nextPost>>

\* DELETE of the row, which is there; the posts of a blog go with it.
DeleteRow(o) ==
    /\ Exists(o)
    /\ IF o.table = "blog"
       THEN /\ blogs' = blogs \ {o.id}
            /\ posts' = {p \in posts : blogOf[p] # o.id}
       ELSE /\ posts' = posts \ {o.id}
            /\ UNCHANGED blogs
    /\ UNCHANGED <<blogOf, nextBlog, nextPost>>

Commit(o) ==
    \/ o.act = "create" /\ Insert(o)
    \/ o.act = "edit" /\ UpdateRow(o)
    \/ o.act = "delete" /\ DeleteRow(o)

\* The transaction commits, and its answer arrives or is lost: then the
\* execution strategy runs it once more.
Save(b) ==
    /\ pc[b] = "save"
    /\ Commit(op[b])
    /\ \/ Goto(b, "index") /\ UNCHANGED lost
       \/ lost < MaxLost /\ lost' = lost + 1 /\ UNCHANGED pc
    /\ UNCHANGED op

\* Mutant: Edit catches every exception of the update as a missing row.
CatchAll(b) ==
    /\ pc[b] = "save" /\ op[b].act = "edit"
    /\ ~Exists(op[b]) \/ ~KeyHolds(op[b])
    /\ Goto(b, "not found")
    /\ UNCHANGED <<tables, op>>

\* DbUpdateConcurrencyException: no row has the key.  Edit catches it.
NoRow(b) ==
    /\ pc[b] = "save" /\ op[b].act = "edit" /\ ~Exists(op[b])
    /\ Goto(b, "check")
    /\ UNCHANGED <<tables, op>>

\* What nothing catches: a delete that finds no row, a post of a blog that is
\* gone, a connection that stays broken until the last retry.
SaveThrows(b) ==
    /\ pc[b] = "save"
    /\ Goto(b, "error")
    /\ UNCHANGED <<tables, op>>

\* Mutant: the test without its negation.
CheckInverted(b) ==
    /\ pc[b] = "check"
    /\ Goto(b, IF Exists(op[b]) THEN "not found" ELSE "rethrown")
    /\ UNCHANGED <<tables, op>>

\* BlogExists, PostExists: the row is looked up after the exception.
Check(b) ==
    /\ pc[b] = "check"
    /\ Goto(b, IF ~Exists(op[b]) THEN "not found" ELSE "rethrown")
    /\ UNCHANGED <<tables, op>>

Next ==
    \E b \in Browsers :
        \/ \E o \in Operations : Open(b, o)
        \/ Post(b) \/ Find(b) \/ Save(b) \/ NoRow(b) \/ SaveThrows(b) \/ Check(b)

Spec == Init /\ [][Next]_vars

-----------------------------------------------------------------------------
(* Properties                                                              *)

\* Types of the variables.
TypeOK ==
    /\ blogs \subseteq Ids
    /\ posts \subseteq Ids
    /\ blogOf \in [Ids -> Ids \cup {NoId}]
    /\ nextBlog \in 1 .. MaxId + 1
    /\ nextPost \in 1 .. MaxId + 1
    /\ lost \in 0 .. MaxLost
    /\ pc \in [Browsers -> {"idle", "page", "find", "save", "check", "index",
                            "not found", "error", "rethrown"}]
    /\ op \in [Browsers -> Operations]

\* Whatever is deleted between a page and its form: no post is left or put
\* under a blog that is gone.
PostsHaveBlogs == \A p \in posts : blogOf[p] \in blogs

\* An Edit that answers NotFound, and a Delete that answers with the list,
\* tell the truth from then on: the row is not there.
AnswersAreTrue ==
    \A b \in Browsers :
        \/ pc[b] = "not found"
        \/ pc[b] = "index" /\ op[b].act = "delete"
        => ~Exists(op[b])

\* Edit never rethrows: an update that found no row finds none afterwards, for
\* no request brings a key back.
NeverRethrown == \A b \in Browsers : pc[b] # "rethrown"

\* A deleted row never comes back, by a form opened before it was deleted or
\* by a transaction run once more.
DeletedForGood ==
    [][/\ \A k \in 1 .. nextBlog - 1 : k \notin blogs => k \notin blogs'
       /\ \A k \in 1 .. nextPost - 1 : k \notin posts => k \notin posts']_vars
=============================================================================
