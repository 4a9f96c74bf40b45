---------------------------- MODULE ReloadExclusion ----------------------------
(***************************************************************************)
(* What the admission gate of mlx_lm.server promises to the rest of the    *)
(* program: requests use the serving configuration together, at most Limit *)
(* of them at a time, and the configuration is replaced only while nobody  *)
(* uses it.  AdmissionGate is the protocol that implements this.           *)
(***************************************************************************)
EXTENDS Naturals, FiniteSets

CONSTANTS
    Requests,   \* the requests a client may send
    Settings,   \* the values the reloaded lever takes
    Limit       \* max_inflight_requests; 0 means no limit

VARIABLES
    users,      \* the requests that use the configuration
    lever       \* the configuration in force

exclusionVars == <<users, lever>>

ExclusionInit == users = {} /\ lever \in Settings

Enter(c) ==
    /\ c \notin users
    /\ Limit = 0 \/ Cardinality(users) < Limit
    /\ users' = users \cup {c}
    /\ UNCHANGED lever

Leave(c) ==
    /\ c \in users
    /\ users' = users \ {c}
    /\ UNCHANGED lever

Replace(v) ==
    /\ users = {}
    /\ lever' = v
    /\ UNCHANGED users

ExclusionNext ==
    \/ \E c \in Requests : Enter(c) \/ Leave(c)
    \/ \E v \in Settings : Replace(v)

ExclusionSpec == ExclusionInit /\ [][ExclusionNext]_exclusionVars

================================================================================
