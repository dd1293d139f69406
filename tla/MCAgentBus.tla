---- MODULE MCAgentBus ----
(***************************************************************************)
(* Instances of AgentBus.  On the desktop side a daemon and a manual pull  *)
(* of the same task.  On the code side one watcher for a repository.       *)
(***************************************************************************)
EXTENDS AgentBus

CONSTANTS t1, t10, d1, p1, w1

DesktopTopics == {t1}
DesktopClients == {d1, p1}
DesktopFilters == [c \in DesktopClients |-> {{t1}}]
DesktopKnows == [c \in DesktopClients |-> {t1}]

WatchClients == {w1}
WatchFilters == [c \in WatchClients |-> {{t1, t10}}]
WatchKnows == [c \in WatchClients |-> {}]

====
