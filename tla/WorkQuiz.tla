------------------------------ MODULE WorkQuiz ------------------------------
(***************************************************************************)
(* The quiz of a chapter: ChaoxingQuizService.study_work and               *)
(* QuizAnswerProcessor in services/course/chaoxing/quiz_service.py.        *)
(*                                                                         *)
(* An answer is what it is worth: "cover" if the question bank had one     *)
(* that fits, "random" if it was made up, "blank" if not even that (a      *)
(* question to be completed has no options to choose from).  How an answer *)
(* is matched with the options is left out.  rollback_times, which the     *)
(* Chaoxing client always passes as 0, is left out, too.                   *)
(***************************************************************************)
EXTENDS Integers, FiniteSets

CONSTANTS
    Question,
    Completion,   \* questions without options
    Workers,      \* ai_concurrency
    NeedPercent,  \* COVER_RATE * 100
    Attempts      \* max_retries of with_retry

VARIABLES
    at,          \* where study_work is
    saveOnly,    \* get_submit_params() is "1"
    concurrent,  \* wants_concurrent_query
    tries,       \* attempts to fetch the questions
    doing,       \* what a thread is doing with each question
    source,      \* answerSource of each question
    field,       \* answer of each question
    found,       \* found_answers
    form,        \* the answers posted, "none" before
    flag,        \* pyFlag: "save" or "submit"
    result

fetching == <<saveOnly, concurrent, tries>>
answering == <<doing, source, field, found>>
posting == <<form, flag, result>>
quizVars == <<at, fetching, answering, posting>>

Init ==
    /\ at = "fetch"
    /\ saveOnly \in BOOLEAN /\ concurrent \in BOOLEAN
    /\ tries = 0
    /\ doing = [q \in Question |-> "todo"]
    /\ source = [q \in Question |-> "none"]
    /\ field = [q \in Question |-> "none"]
    /\ found = 0
    /\ form = [q \in Question |-> "none"]
    /\ flag = "none" /\ result = "none"

Return(r) ==
    /\ at' = "returned"
    /\ result' = r

-----------------------------------------------------------------------------
(* Fetching the questions *)

\* study_work: they are there; or there is no question bank, or no quiz yet.
Fetch ==
    /\ at = "fetch"
    /\ \/ at' = "answer" /\ UNCHANGED result
       \/ \E r \in {"success", "failure"} : Return(r)
    /\ UNCHANGED <<fetching, answering, form, flag>>

\* with_retry: a request that was refused, or a page without questions.
FetchAgain ==
    /\ at = "fetch"
    /\ tries' = tries + 1
    /\ IF tries' < Attempts THEN UNCHANGED <<at, result>> ELSE Return("failure")
    /\ UNCHANGED <<saveOnly, concurrent, answering, form, flag>>

-----------------------------------------------------------------------------
(* process_questions: the questions one by one, or by a pool of threads *)

Busy == {q \in Question : doing[q] \notin {"todo", "done", "failed"}}
Set(q, stage) == doing' = [doing EXCEPT ![q] = stage]

Start(q) ==
    /\ at = "answer" /\ doing[q] = "todo"
    /\ Cardinality(Busy) < IF concurrent THEN Workers ELSE 1
    /\ Set(q, "query")
    /\ UNCHANGED <<at, fetching, source, field, found, posting>>

MadeUp(q) == IF q \in Completion THEN "blank" ELSE "random"

\* No answer, or none that fits.
AnswerAtRandom(q) ==
    /\ doing[q] = "query"
    /\ source' = [source EXCEPT ![q] = "random"]
    /\ field' = [field EXCEPT ![q] = MadeUp(q)]
    /\ Set(q, "done")
    /\ UNCHANGED <<at, fetching, found, posting>>

AnswerFits(q) ==
    /\ doing[q] = "query"
    /\ source' = [source EXCEPT ![q] = "cover"]
    /\ Set(q, "count")
    /\ UNCHANGED <<at, fetching, field, found, posting>>

\* Wrong on purpose: found_answers += 1 without the lock.
CountUnlocked(q) ==
    /\ doing[q] = "count"
    /\ \/ found' = found + 1
       \/ (\E p \in Question \ {q} : doing[p] = "count") /\ UNCHANGED found
    /\ Set(q, "fill")
    /\ UNCHANGED <<at, fetching, source, field, posting>>

\* inc_found, under a lock where there are threads.
Count(q) ==
    /\ doing[q] = "count"
    /\ found' = found + 1
    /\ Set(q, "fill")
    /\ UNCHANGED <<at, fetching, source, field, posting>>

Fill(q) ==
    /\ doing[q] = "fill"
    /\ field' = [field EXCEPT ![q] = "cover"]
    /\ Set(q, "done")
    /\ UNCHANGED <<at, fetching, source, found, posting>>

\* The query raises: study_work fails with it, unless it was a thread's.
QueryRaises(q) ==
    /\ doing[q] = "query"
    /\ Set(q, "failed")
    /\ IF concurrent THEN UNCHANGED <<at, result>> ELSE Return("raised")
    /\ UNCHANGED <<fetching, source, field, found, form, flag>>

\* _fallback_random_answer, by the thread that collects the results.
Fallback(q) ==
    /\ at = "answer" /\ doing[q] = "failed"
    /\ source' = [source EXCEPT ![q] = "random"]
    /\ field' = [field EXCEPT ![q] = MadeUp(q)]
    /\ Set(q, "done")
    /\ UNCHANGED <<at, fetching, found, posting>>

-----------------------------------------------------------------------------
(* The decision and the post *)

\* Wrong on purpose: a saved form keeps the answers that were made up.
FilledAll(save) == field

\* fill_answers_into_form: only what the question bank knew is saved.
Filled(save) ==
    [q \in Question |-> IF save /\ source[q] # "cover" THEN "blank" ELSE field[q]]

Decide ==
    /\ at = "answer"
    /\ \A q \in Question : doing[q] = "done"
    /\ LET save == saveOnly \/ found * 100 < NeedPercent * Cardinality(Question) IN
        /\ flag' = IF save THEN "save" ELSE "submit"
        /\ form' = Filled(save)
    /\ at' = "post"
    /\ UNCHANGED <<fetching, answering, result>>

\* Accepted; refused, which is no failure if the quiz expired; or an error.
Post ==
    /\ at = "post"
    /\ \E r \in {"success", "failure", "raised"} : Return(r)
    /\ UNCHANGED <<fetching, answering, form, flag>>

Next ==
    \/ Fetch \/ FetchAgain \/ Decide \/ Post
    \/ \E q \in Question :
        \/ Start(q) \/ AnswerAtRandom(q) \/ AnswerFits(q)
        \/ Count(q) \/ Fill(q) \/ QueryRaises(q) \/ Fallback(q)

Spec == Init /\ [][Next]_quizVars

-----------------------------------------------------------------------------
(* Properties *)

Worth == {"none", "cover", "random", "blank"}

TypeOK ==
    /\ at \in {"fetch", "answer", "post", "returned"}
    /\ saveOnly \in BOOLEAN /\ concurrent \in BOOLEAN
    /\ tries \in 0 .. Attempts
    /\ doing \in [Question -> {"todo", "query", "count", "fill", "failed", "done"}]
    /\ source \in [Question -> {"none", "cover", "random"}]
    /\ field \in [Question -> Worth] /\ form \in [Question -> Worth]
    /\ found \in 0 .. Cardinality(Question)
    /\ flag \in {"none", "save", "submit"}
    /\ result \in {"none", "success", "failure", "raised"}

Posted == flag # "none"
Known == {q \in Question : form[q] = "cover"}

\* A quiz is handed in for good only if the user allowed it and enough of its
\* answers come from the question bank; otherwise exactly those are saved.
\* No thread's failure and no lost count leaves a question out or lets a quiz
\* of made-up answers through.
HandedInAsAllowed ==
    /\ flag = "submit" =>
        /\ ~saveOnly
        /\ Cardinality(Known) * 100 >= NeedPercent * Cardinality(Question)
        /\ \A q \in Question : form[q] # "none" /\ (form[q] = "blank" => q \in Completion)
    /\ flag = "save" =>
        /\ saveOnly \/ Cardinality(Known) * 100 < NeedPercent * Cardinality(Question)
        /\ \A q \in Question : form[q] \in {"cover", "blank"}
    /\ Posted => \A q \in Question : form[q] = "cover" <=> source[q] = "cover"

QuizSound == TypeOK /\ HandedInAsAllowed
=============================================================================
