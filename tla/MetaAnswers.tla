----------------------------- MODULE MetaAnswers -----------------------------
(***************************************************************************)
(* MetaCache with two history variables, which record what the answers of  *)
(* FileMetaDAO::get may be compared with.  They restrict no step.          *)
(***************************************************************************)
EXTENDS MetaCache

VARIABLES
    unpurged,   \* what the row was before the changes whose purge is due
    seen        \* during a get: what it may answer from

answerVars == <<vars, unpurged, seen>>

\* A row as a value that a get can show.
Shown(r) == {r} \ {"none"}

InGet == {"lock", "nap", "query", "write"}

\* What c may show if it answers now: the row since its get began, and what
\* was due to be purged at that time.
Known(c) == Shown(row) \cup IF pc[c] = "idle" THEN unpurged ELSE seen[c]

\* Nothing is recorded while what a purge has missed may be shown.
Remember ==
    /\ unpurged' = IF ~missed' /\ \E c \in Caller : pc'[c] = "purge"
                   THEN unpurged \cup (Shown(row) \ {row'}) ELSE {}
    /\ seen' = [c \in Caller |-> IF ~missed' /\ pc'[c] \in InGet
                                 THEN Known(c) \cup Shown(row') ELSE {}]

AnswersInit ==
    /\ Init
    /\ unpurged = {}
    /\ seen = [c \in Caller |-> {}]

AnswersNext == Next /\ Remember

AnswersSpec == AnswersInit /\ [][AnswersNext]_answerVars

FairAnswersSpec == AnswersSpec /\ Fairness
-----------------------------------------------------------------------------
(* Properties *)

\* The get of c ends in this step, from the cache, from MySQL or empty-handed.
Answers(c) == pc[c] \in InGet \cup {"idle"} /\ pc'[c] \in {"unlock", "got"}

\* A get shows a file only if MySQL had it while the get ran, and as public
\* only if it was public in that time, or if the change that ended this had not
\* purged yet when the get began: after a deletion or a toggle has returned, no
\* get that begins shows the old state, through whichever mixture of writers
\* the cache was filled.  A purge that was left out, failed or overtook a writer
\* excuses this only until the hash is next gone and that writer done.
AnswersFresh ==
    [][\A c \in Caller :
          Answers(c) /\ ~missed =>
              /\ meta'[c].found => Known(c) # {}
              /\ meta'[c].pub => "public" \in Known(c)]_answerVars
=============================================================================
