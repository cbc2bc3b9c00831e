------------------------------ MODULE Interview ------------------------------
(***************************************************************************)
(* ScopeLogic: the interview sessions of the server, one for each project  *)
(* (server/routes/scopelogic-router, core/scopelogic), and the tabs that   *)
(* talk to them and stage the draft (ui/views/ScopeLogicDashboard).        *)
(***************************************************************************)
EXTENDS Naturals, Sequences, FiniteSets, SequencesExt

CONSTANTS
    Projects, Tabs,
    Assertions,    \* assertions the operator may switch on: SI-01, SI-03, SI-05, QR-01
    MaxRounds,     \* MAX_ROUNDS
    KeptSessions,  \* MAX_SESSIONS
    MaxIds, MaxPrompts  \* bounds: sessions ever created, prompts in flight

ASSUME InterviewAssumption ==
    /\ Projects # {}
    /\ MaxRounds \in Nat \ {0} /\ KeptSessions \in Nat \ {0}
    /\ MaxIds \in Nat \ {0} /\ MaxPrompts \in Nat \ {0}

VARIABLES
    interviews,   \* the Map: a sequence of [key, id] in insertion order
    created,    \* sessions created so far; ids 1..created
    owner,      \* the project each was created for
    round, over,  \* round and isComplete of each
    enabled,    \* assertions that are on
    prompts,    \* requests in flight: [tab, project, id, stage, draft]
    shown,      \* the project of each tab
    closed,     \* tabs whose input is disabled
    drafts,     \* history: drafts staged, [project, id, flaws]
    said        \* history: messages each session accepted

ivars == <<interviews, created, owner, round, over, enabled, prompts, shown, closed, drafts, said>>

Safety == "SA"  \* the locked assertions, SA-01 .. SA-07

FirstProject == CHOOSE p \in Projects : TRUE

InterviewInit ==
    /\ interviews = <<>> /\ created = 0
    /\ owner = <<>> /\ round = <<>> /\ over = <<>>
    /\ enabled = {} /\ prompts = {}
    /\ shown = [t \in Tabs |-> FirstProject] /\ closed = {}
    /\ drafts = {} /\ said = <<>>
-----------------------------------------------------------------------------
(* getOrCreateSession: a hit moves to the end; a miss creates a session and, *)
(* over the cap, evicts the first key.                                      *)
PlacesOf(p) == {k \in DOMAIN interviews : interviews[k].key = p}
ToEnd(q, k) == Append(RemoveAt(q, k), q[k])
Capped(q) == IF Len(q) > KeptSessions THEN Tail(q) ELSE q

\* The tables once the session of p is found or created.
Touched(p) ==
    IF PlacesOf(p) # {}
    THEN LET k == CHOOSE k \in PlacesOf(p) : TRUE
         IN  [id |-> interviews[k].id, map |-> ToEnd(interviews, k),
              owner |-> owner, round |-> round, over |-> over]
    ELSE [id |-> created + 1, map |-> Capped(Append(interviews, [key |-> p, id |-> created + 1])),
          owner |-> Append(owner, p), round |-> Append(round, 0), over |-> Append(over, FALSE)]

(* The tab moves to a project and loads its history: what it showed stays    *)
(* when there is none.                                                      *)
ShowProject(t, p) ==
    LET T == Touched(p)
    IN  /\ T.id <= MaxIds
        /\ shown' = [shown EXCEPT ![t] = p]
        /\ interviews' = T.map /\ created' = Len(T.owner)
        /\ owner' = T.owner /\ round' = T.round /\ over' = T.over
        /\ closed' = IF T.over[T.id] THEN closed \cup {t} ELSE closed
        /\ said' = IF T.id > created THEN Append(said, 0) ELSE said
        /\ UNCHANGED <<enabled, prompts, drafts>>

\* resetSession takes the place of the old entry, and looks at no cap.
Replaced(p, i) ==
    IF PlacesOf(p) = {} THEN Append(interviews, [key |-> p, id |-> i])
    ELSE [k \in DOMAIN interviews |->
             IF k \in PlacesOf(p) THEN [interviews[k] EXCEPT !.id = i] ELSE interviews[k]]

Reset(t) ==
    /\ created < MaxIds /\ created' = created + 1
    /\ owner' = Append(owner, shown[t]) /\ round' = Append(round, 0)
    /\ over' = Append(over, FALSE)
    /\ interviews' = Replaced(shown[t], created')
    /\ closed' = closed \ {t}
    /\ said' = Append(said, 0)
    /\ UNCHANGED <<enabled, prompts, shown, drafts>>

Toggle(a) ==
    /\ enabled' = IF a \in enabled THEN enabled \ {a} ELSE enabled \cup {a}
    /\ UNCHANGED <<interviews, created, owner, round, over, prompts, shown, closed, drafts, said>>
-----------------------------------------------------------------------------
Stages == {"question", "draft", "reply"}
Prompt(t, p, i, s) == [tab |-> t, project |-> p, id |-> i, stage |-> s, draft |-> {"none"}]
Moved(r, s) == prompts' = (prompts \ {r}) \cup {[r EXCEPT !.stage = s]}

\* Fault: the round is counted when the model has answered.
CountsLater(R, i) == R

\* Before the model is asked.
Counts(R, i) == [R EXCEPT ![i] = @ + 1]

(* processUserInputAsync, up to its first await: the last round, or words    *)
(* that say so, end the interview; a finished one refuses.                  *)
Send(t) ==
    LET T == Touched(shown[t])
        i == T.id
    IN  /\ t \notin closed /\ Cardinality(prompts) < MaxPrompts /\ i <= MaxIds
        /\ interviews' = T.map /\ created' = Len(T.owner) /\ owner' = T.owner
        /\ IF T.over[i]
           THEN /\ prompts' = prompts \cup {Prompt(t, shown[t], i, "reply")}
                /\ said' = said
                /\ round' = T.round /\ over' = T.over
           ELSE /\ round' = Counts(T.round, i)
                /\ said' = IF i > created THEN Append(said, 1) ELSE [said EXCEPT ![i] = @ + 1]
                /\ \E ends \in {T.round[i] + 1 >= MaxRounds, TRUE} :
                     /\ over' = [T.over EXCEPT ![i] = ends]
                     /\ prompts' = prompts \cup
                           {Prompt(t, shown[t], i, IF ends THEN "draft" ELSE "question")}
        /\ UNCHANGED <<enabled, shown, closed, drafts>>

(* The model answers with a question, fails, so that a static question is    *)
(* asked, or says that it is done: the session may be over by then.         *)
Question(r) ==
    /\ r.stage = "question"
    /\ \/ Moved(r, "reply") /\ UNCHANGED over
       \/ Moved(r, "draft") /\ over' = [over EXCEPT ![r.id] = TRUE]
    /\ UNCHANGED <<interviews, created, owner, round, enabled, shown, closed, drafts, said>>

\* Fault: the checks that are off by default switch the others off.
PassesWhenOff(flaws) == enabled = {} \/ flaws \cap ({Safety} \cup enabled) = {}

\* ValidatorLogic.validate: the locked assertions, and those that are on.
Passes(flaws) == flaws \cap ({Safety} \cup enabled) = {}

(* _generateProposal: the draft of the model if it parses and passes, else   *)
(* the template, which reuses the words of the operator and may not pass.   *)
Draft(r) ==
    /\ r.stage = "draft"
    /\ \E flaws \in SUBSET ({Safety} \cup Assertions) :
          prompts' = (prompts \ {r}) \cup
              {[r EXCEPT !.stage = "reply", !.draft = IF Passes(flaws) THEN flaws ELSE {"none"}]}
    /\ UNCHANGED <<interviews, created, owner, round, over, enabled, shown, closed, drafts, said>>

\* Fault: the draft is staged for the project the tab shows by now.
ScopeShown(r) == shown[r.tab]

\* The project the message was sent for.
Scope(r) == r.project

(* The tab gets the answer: a draft closes the interview and is staged.      *)
Reply(r) ==
    /\ r.stage = "reply"
    /\ prompts' = prompts \ {r}
    /\ IF r.draft = {"none"} THEN UNCHANGED <<closed, drafts>>
       ELSE /\ closed' = closed \cup {r.tab}
            /\ drafts' = drafts \cup {[project |-> Scope(r), id |-> r.id, flaws |-> r.draft]}
    /\ UNCHANGED <<interviews, created, owner, round, over, enabled, shown, said>>

\* The fetch of the tab ends before the answer; the server goes on.
Abandon(r) ==
    /\ r.stage = "reply" /\ prompts' = prompts \ {r}
    /\ UNCHANGED <<interviews, created, owner, round, over, enabled, shown, closed, drafts, said>>

InterviewNext ==
    \/ \E t \in Tabs, p \in Projects : ShowProject(t, p)
    \/ \E t \in Tabs : Reset(t) \/ Send(t)
    \/ \E a \in Assertions : Toggle(a)
    \/ \E r \in prompts : Question(r) \/ Draft(r) \/ Reply(r) \/ Abandon(r)

InterviewSpec == InterviewInit /\ [][InterviewNext]_ivars
-----------------------------------------------------------------------------
(* However many tabs talk to a session, and however late the model answers,  *)
(* an interview has at most MAX_ROUNDS rounds, and the last one ends it.    *)
RoundsBounded ==
    \A i \in 1..created : said[i] <= MaxRounds /\ (said[i] = MaxRounds => over[i])

(* A draft is staged for the project whose interview it comes from: tabs     *)
(* move to other projects, and sessions are evicted and reset meanwhile.    *)
DraftBelongs == \A d \in drafts : d.project = owner[d.id]

(* No staged draft breaks a locked assertion, whatever the operator          *)
(* switched while it was being written.                                     *)
DraftSafe == \A d \in drafts : Safety \notin d.flaws

InterviewSound == RoundsBounded /\ DraftBelongs /\ DraftSafe
=============================================================================
