--------------------------- MODULE Configuration ---------------------------
(* The instances a process starts with: LoadInstances of config.go, and    *)
(* main's choice among them for calls that name none.  Ids are numbers in  *)
(* the order of the strings they stand for; 0 is the empty one.            *)
EXTENDS Integers, Sequences

CONSTANTS
    Listed,   \* the entries of STRIPE_INSTANCES_CONFIG, a sequence of ids
    FromFile, \* is STRIPE_INSTANCES_CONFIG set?
    EnvId     \* STRIPE_INSTANCE_ID or its default; 0 without STRIPE_API_KEY

ASSUME ConfigurationAssumption ==
    /\ Listed \in Seq(Nat)
    /\ FromFile \in BOOLEAN
    /\ EnvId \in Nat

NoInstance == 0

(* An entry without an id is skipped; of two with one id the last counts.  *)
(* The single tenant of the environment is used only without a file.       *)
Loaded ==
    (IF FromFile THEN {Listed[n] : n \in DOMAIN Listed} ELSE {EnvId})
        \ {NoInstance}

(* The least id, whatever the order in which the map is ranged over.       *)
DefaultInstance ==
    IF Loaded = {} THEN NoInstance
    ELSE CHOOSE first \in Loaded : \A n \in Loaded : first <= n
=============================================================================
