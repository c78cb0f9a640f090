----------------------------- MODULE MCQosPort ------------------------------
(* The policies of the instance of QosPort that TLC checks. *)
EXTENDS QosPort

Limit(rate, burst) == [rate |-> rate, burst |-> burst]

Class(weight, priority, police, shape) ==
    [weight |-> weight, priority |-> priority, police |-> police, shape |-> shape]

\* A weighted, a policed and a shaped class, and a policy with a priority
\* class to change to.
MCPolicies ==
    [mixed |-> <<Class(2, NoLimit, NoLimit, NoLimit),
                 Class(1, NoLimit, Limit(1, 2), NoLimit),
                 Class(1, NoLimit, NoLimit, Limit(1, 2))>>,
     voice |-> <<Class(1, Limit(1, 2), NoLimit, NoLimit)>>]

=============================================================================
