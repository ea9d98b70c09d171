---------------------------- MODULE QuizCatalog ----------------------------
(***************************************************************************)
(* The quiz service (app/quiz/services.py) around one quiz: its row, its   *)
(* question rows, the tags it shares with other quizzes and the rooms that *)
(* deleting it deletes, with requests handled side by side.                *)
(*                                                                         *)
(* A list of questions is written as a whole and deleted by the ids of its *)
(* rows, so lists are numbered in the order they were written and a quiz   *)
(* holds a set of them.  A transaction's writes take effect with its       *)
(* commit, except where another request could meet them before: the names  *)
(* of new tags, which a lookup flushes, and the rooms under deletion.      *)
(***************************************************************************)
EXTENDS Naturals, Sequences, FiniteSets

CONSTANTS
    Requests,   \* bound: requests handled at once
    Codes,      \* room codes
    Tags,       \* names of tags
    TagLists,   \* bound: the lists of tags a request may carry
    MaxLists    \* bound: lists of questions written

ASSUME RequestsAssumption == IsFiniteSet(Requests) /\ Requests # {}
ASSUME TagListsAssumption == TagLists \subseteq Seq(Tags)

VARIABLES
    quiz,      \* the quizzes row and the lists of questions it has
    written,   \* how many lists of questions were written
    tags,      \* the names in the tags table
    room,      \* game_sessions and game_players rows, by room code
    since,     \* history: edits of a published quiz, or rooms opened for a
               \* draft, since the status last changed
    request    \* the handler of each request to the catalogue

catalogVars == <<quiz, written, tags, room, since, request>>

Statuses == {"draft", "published"}
Edits    == {"keep", "empty", "list"}
Ops      == {"create", "update", "draft", "published", "delete"}
Steps    == {"idle", "load", "tags", "set", "delete", "delete_commit"}

NoRoom   == [id |-> 0, status |-> "none", players |-> <<>>, late |-> 0]
Present(c) == room[c].id # 0
RoomIds  == {room[c].id : c \in {d \in Codes : Present(d)}}

\* seen and rows: the status and the lists as they were read; want: the tags
\* still to be looked up; pending: a tag added but not yet inserted; held: tags
\* inserted and not committed; victims: the rooms whose rows were deleted.
Done == [op |-> "create", pc |-> "idle", seen |-> "draft", rows |-> {}, edit |-> "keep",
         want |-> <<>>, pending |-> {}, held |-> {}, victims |-> {}]

RequestState == [op : Ops, pc : Steps, seen : Statuses, rows : SUBSET Nat, edit : Edits,
                 want : Seq(Tags), pending : SUBSET Tags, held : SUBSET Tags,
                 victims : SUBSET Nat]
Quiz         == [state : {"none", "live", "deleted"}, status : Statuses, lists : SUBSET Nat]

CatalogTypeOK ==
    /\ quiz \in Quiz
    /\ written \in Nat
    /\ tags \subseteq Tags
    /\ since \in Nat
    /\ request \in [Requests -> RequestState]

CatalogInit ==
    /\ quiz = [state |-> "none", status |-> "draft", lists |-> {}]
    /\ written = 0 /\ tags = {}
    /\ room = [c \in Codes |-> NoRoom]
    /\ since = 0
    /\ request = [r \in Requests |-> Done]

-----------------------------------------------------------------------------
(* Faulty variants of definitions below, in no specification: each shows    *)
(* that a property of Lobby notices the bug it names.                       *)

\* A new list of questions that leaves the former one in place.
RewrittenAppended(lists, r) ==
    IF request[r].edit = "list" THEN lists \cup {written + 1} ELSE lists

\* A session that ends without ending its transaction.
FinishUncommitted(r) ==
    request' = [request EXCEPT ![r] = [Done EXCEPT !.held = request[r].held]]

\* update_quiz without its check of the status.
FetchQuizAnyStatus(r) ==
    /\ request[r].pc = "idle" /\ quiz.state = "live"
    /\ \E op \in Ops \ {"create"}, edit \in Edits, want \in TagLists :
           /\ op # "update" => edit = "keep" /\ want = <<>>
           /\ written + (IF edit = "list" THEN 1 ELSE 0) <= MaxLists
           /\ request' = [request EXCEPT ![r] = [Done EXCEPT !.pc = "load", !.op = op,
                              !.seen = quiz.status, !.edit = edit, !.want = want]]
    /\ UNCHANGED <<quiz, written, tags, room, since>>

\* game_sessions.quiz_id without its foreign key.
DeleteCommitNoKey(r) ==
    /\ request[r].pc = "delete_commit"
    /\ quiz' = [quiz EXCEPT !.state = "deleted", !.lists = {}]
    /\ room' = [c \in Codes |-> IF room[c].id \in request[r].victims THEN NoRoom ELSE room[c]]
    /\ request' = [request EXCEPT ![r] = Done]
    /\ UNCHANGED <<written, tags, since>>

-----------------------------------------------------------------------------
(* What the requests share.                                                *)

\* The answer, or an error: the session is closed and the transaction with it.
Finish(r) == request' = [request EXCEPT ![r] = Done]

\* The lists of a quiz from which those of the request's reading are deleted and
\* to which its own is added.
Rewritten(lists, r) ==
    CASE request[r].edit = "keep"  -> lists
      [] request[r].edit = "empty" -> lists \ request[r].rows
      [] request[r].edit = "list"  -> (lists \ request[r].rows) \cup {written + 1}

Writes(r) == written' = IF request[r].edit = "list" THEN written + 1 ELSE written

\* The bound on lists, kept where a request with one arrives.
MayWrite(edit) ==
    edit = "list" =>
        written + Cardinality({r \in Requests : request[r].edit = "list"}) < MaxLists

\* A name that another transaction has inserted blocks until that one has ended.
WaitsFor(r, o) == o # r /\ request[r].pending \cap request[o].held # {}
Waits(r)       == \E o \in Requests : WaitsFor(r, o)
Taken(r)       == request[r].pending \cap tags # {}

\* Everybody in a set waits for one of them and is waited for by one of them.
Deadlocked(r) ==
    \E S \in SUBSET Requests :
        r \in S /\ \A x \in S : (\E y \in S : WaitsFor(x, y)) /\ (\E y \in S : WaitsFor(y, x))

\* The room's row is deleted by a transaction that has not ended.
Doomed(c) == \E r \in Requests : room[c].id \in request[r].victims

-----------------------------------------------------------------------------
(* create_quiz and update_quiz.                                            *)

CreateQuiz(r) ==
    /\ request[r].pc = "idle"
    /\ \E want \in TagLists, edit \in {"empty", "list"} :
           /\ MayWrite(edit)
           /\ request' = [request EXCEPT ![r] = [Done EXCEPT !.pc = "tags", !.want = want,
                                                             !.edit = edit]]
    /\ UNCHANGED <<quiz, written, tags, room, since>>

\* _fetch_quiz reads the row first: who does not own the quiz, or would edit a
\* published one, is turned away.
FetchQuiz(r) ==
    /\ request[r].pc = "idle" /\ quiz.state = "live"
    /\ \E op \in Ops \ {"create"}, edit \in Edits, want \in TagLists :
           /\ op = "update" => quiz.status = "draft"
           /\ op # "update" => edit = "keep" /\ want = <<>>
           /\ MayWrite(edit)
           /\ request' = [request EXCEPT ![r] = [Done EXCEPT !.pc = "load", !.op = op,
                              !.seen = quiz.status, !.edit = edit, !.want = want]]
    /\ UNCHANGED <<quiz, written, tags, room, since>>

\* The questions, by a statement of their own.  Without any, there is nothing to
\* publish.
LoadQuestions(r) ==
    /\ request[r].pc = "load"
    /\ IF request[r].op = "published" /\ quiz.lists = {}
       THEN Finish(r)
       ELSE request' = [request EXCEPT ![r].rows = quiz.lists,
                ![r].pc = CASE request[r].op = "update"  -> "tags"
                            [] request[r].op = "delete"  -> "delete"
                            [] request[r].op \in Statuses -> "set"]
    /\ UNCHANGED <<quiz, written, tags, room, since>>

\* _get_or_create_tags, one name: the lookup first inserts the tag that the one
\* before it added, which fails if the name has been committed since.
TagLookup(r) ==
    LET q == request[r]
        held == q.held \cup q.pending
        name == Head(q.want) IN
    /\ q.pc = "tags" /\ q.want # <<>> /\ ~ Waits(r)
    /\ IF Taken(r)
       THEN Finish(r)
       ELSE request' = [request EXCEPT ![r].held = held, ![r].want = Tail(q.want),
                ![r].pending = IF name \in tags \cup held THEN {} ELSE {name}]
    /\ UNCHANGED <<quiz, written, tags, room, since>>

\* The commit of a new quiz; the first one is the quiz followed here.
CreateCommit(r) ==
    /\ request[r].pc = "tags" /\ request[r].op = "create"
    /\ request[r].want = <<>> /\ ~ Waits(r)
    /\ \/ Taken(r) /\ UNCHANGED <<quiz, written, tags>>
       \/ /\ ~ Taken(r)
          /\ tags' = tags \cup request[r].held \cup request[r].pending
          /\ IF quiz.state = "none"
             THEN /\ quiz' = [state |-> "live", status |-> "draft", lists |-> Rewritten({}, r)]
                  /\ Writes(r)
             ELSE UNCHANGED <<quiz, written>>
    /\ Finish(r)
    /\ UNCHANGED <<room, since>>

\* The commit of an edit.  If the quiz has been deleted its update finds no row,
\* which is an error, as is a name taken meanwhile.
UpdateCommit(r) ==
    /\ request[r].pc = "tags" /\ request[r].op = "update"
    /\ request[r].want = <<>> /\ ~ Waits(r)
    /\ \/ (Taken(r) \/ quiz.state = "deleted") /\ UNCHANGED <<quiz, written, tags, since>>
       \/ /\ ~ Taken(r) /\ quiz.state = "live"
          /\ tags' = tags \cup request[r].held \cup request[r].pending
          /\ quiz' = [quiz EXCEPT !.lists = Rewritten(@, r)]
          /\ Writes(r)
          /\ since' = IF quiz.status = "published" THEN since + 1 ELSE since
    /\ Finish(r)
    /\ UNCHANGED room

\* A question without a right answer is found out after the tags.  An edit has flushed
\* the deletion of the former questions by then, and the tag still pending with it.
QuestionRefused(r) ==
    /\ request[r].pc = "tags" /\ request[r].want = <<>> /\ request[r].edit = "list"
    /\ request[r].op = "update" => ~ Waits(r)
    /\ Finish(r)
    /\ UNCHANGED <<quiz, written, tags, room, since>>

\* PostgreSQL ends a deadlock by failing one of its transactions.
DeadlockVictim(r) ==
    /\ Deadlocked(r) /\ Finish(r)
    /\ UNCHANGED <<quiz, written, tags, room, since>>

-----------------------------------------------------------------------------
(* set_quiz_status and delete_quiz.                                        *)

\* The status is written if it differs from the one that was read.
SetCommit(r) ==
    /\ request[r].pc = "set"
    /\ IF quiz.state = "live" /\ request[r].op # request[r].seen
       THEN /\ quiz' = [quiz EXCEPT !.status = request[r].op]
            /\ since' = IF quiz.status = request[r].op THEN since ELSE 0
       ELSE UNCHANGED <<quiz, since>>
    /\ Finish(r)
    /\ UNCHANGED <<written, tags, room>>

\* DELETE of the sessions, their players going with them; it waits for another
\* one that has the same rows.
DeleteSessions(r) ==
    /\ request[r].pc = "delete"
    /\ \A c \in Codes : Present(c) => ~ Doomed(c)
    /\ request' = [request EXCEPT ![r].pc = "delete_commit", ![r].victims = RoomIds]
    /\ UNCHANGED <<quiz, written, tags, room, since>>

\* DELETE of the questions that were loaded and of the quiz: a room or a list that
\* came in between still refers to it, and nothing is deleted.
DeleteCommit(r) ==
    /\ request[r].pc = "delete_commit"
    /\ IF quiz.lists \subseteq request[r].rows /\ RoomIds \subseteq request[r].victims
       THEN /\ quiz' = [quiz EXCEPT !.state = "deleted", !.lists = {}]
            /\ room' = [c \in Codes |-> NoRoom]
       ELSE UNCHANGED <<quiz, room>>
    /\ Finish(r)
    /\ UNCHANGED <<written, tags, since>>

CatalogArrival(r) == CreateQuiz(r) \/ FetchQuiz(r)

CatalogStep(r) ==
    \/ LoadQuestions(r) \/ TagLookup(r) \/ CreateCommit(r) \/ UpdateCommit(r)
    \/ QuestionRefused(r) \/ DeadlockVictim(r)
    \/ SetCommit(r) \/ DeleteSessions(r) \/ DeleteCommit(r)

=============================================================================
