--------------------------- MODULE MCRunLifecycle ---------------------------
(* RunLifecycle on two small instances, in one run. *)
EXTENDS RunLifecycle, TLC

VARIABLE instance   \* which of them; it never changes

Symmetry == Permutations(Run) \cup Permutations(Agent) \cup Permutations(Thread)

\* Requests race on one device, or devices compete with one request at a time.
Within ==
    IF instance = "races"
    THEN \A a, b \in Agent : agent[a].mode # "absent" /\ agent[b].mode # "absent" => a = b
    ELSE \A s, t \in Thread : request[s] # Idle /\ request[t] # Idle => s = t

InstancesInit == Init /\ instance \in {"races", "devices"}

InstancesNext == Next /\ UNCHANGED instance /\ Within'

Instances == InstancesInit /\ [][InstancesNext]_<<vars, instance>>

=============================================================================
