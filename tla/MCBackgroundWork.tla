--------------------------- MODULE MCBackgroundWork ---------------------------
(***************************************************************************)
(* The application and what works for it in the background, on small       *)
(* instances: the writer of projects, the session over the service it      *)
(* gives, and the proxies.  One of them moves in each behaviour.           *)
(***************************************************************************)
EXTENDS ProjectWriter, MCProjectSession, ProxyMedia

CONSTANT
  Budget \* bound on the choices of the user and the events of the world around proxies

VARIABLES
  turn,  \* which of them moves
  moves  \* choices and events so far

workVars == <<turn, moves, writerVars, sessionVars, proxyVars>>

Writes == turn = "writer" /\ UNCHANGED <<turn, moves, sessionVars, proxyVars>>
Sits == turn = "session" /\ UNCHANGED <<turn, moves, writerVars, proxyVars>>
Proxies == turn = "proxies" /\ UNCHANGED <<turn, writerVars, sessionVars>>

\* What goes on by itself.
ProxyWork == Builds \/ Removes \/ PollNext \/ Validate \/ \E m \in Media : RestoreCached(m)

ProxyChoice ==
  \/ MenuNext \/ OpenProject \/ ValidatePanics \/ CheckerAble
  \/ \E o \in Original : SourceChanges(o) /\ Apart
  \/ \E m \in Media : Fallback(m) \/ FindCached(m)

\* Paths are interchangeable, so the first project has them in one order.
WorkInit ==
  /\ turn \in {"writer", "session", "proxies"}
  /\ moves = 0
  /\ WriterInit
  /\ SessionInit /\ (turn # "session" => known = {})
  /\ ProxyInit /\ originals = CHOOSE f \in [Media -> Original] : IsInjective(f)
  /\ turn # "proxies" => cache = <<>> /\ app.checker = "able"

WorkNext ==
  \/ Writes /\ WriterNext
  \/ Sits /\ SessionNext
  \/ Proxies /\ UNCHANGED moves /\ ProxyWork
  \/ Proxies /\ ProxyChoice /\ moves < Budget /\ moves' = moves + 1

WorkSafety == WorkInit /\ [][WorkNext]_workVars

\* The fairness of WriterSpec and of SessionSpec.  For the proxies it is enough that something of what goes on
\* by itself does, which is less than ProxySpec says.
WorkSpec ==
  /\ WorkSafety
  /\ WF_workVars(Writes /\ WorkerNext)
  /\ WF_workVars(Writes /\ Wake)
  /\ WF_workVars(Sits /\ AutosaveTick)
  /\ WF_workVars(Sits /\ QuietPeriodEnds)
  /\ WF_workVars(Proxies /\ UNCHANGED moves /\ ProxyWork)
=============================================================================
