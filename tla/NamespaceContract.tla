--------------------------- MODULE NamespaceContract ---------------------------
(***************************************************************************)
(* What a strict module namespace promises to everybody who holds a        *)
(* reference to its dictionary, with no mention of how the runtime keeps   *)
(* the promise.  A namespace is being installed, open, append-only, closed *)
(* or gone.  StrictNamespace is shown to implement this module.            *)
(***************************************************************************)
CONSTANTS Keys,          \* every key the dictionary may hold
          MutableKeys,   \* keys the source declares mutable after sealing
          Values,        \* values a key may be bound to
          Unbound        \* stands for "no entry"

VARIABLES mode, bindings

contractVars == <<mode, bindings>>

Bindings == [Keys -> Values \cup {Unbound}]

ContractInit == mode = "installing" /\ bindings \in Bindings

\* The namespace becomes usable; nothing is bound or unbound by that.
Open == mode = "installing" /\ mode' = "open" /\ UNCHANGED bindings

\* From here on a binding is final unless its key was declared mutable.
Freeze == mode = "open" /\ mode' = "appendOnly" /\ UNCHANGED bindings

\* A failed or abandoned module is closed for good.
Close == /\ mode \in {"installing", "open", "appendOnly"}
         /\ mode' = "closed"
         /\ UNCHANGED bindings

\* The dictionary itself is being destroyed.
Discard == mode # "gone" /\ mode' = "gone" /\ UNCHANGED bindings

Mutate == mode = "open" /\ bindings' \in Bindings /\ UNCHANGED mode

\* A key may be bound once; only declared mutable keys may change again.
Append == /\ mode = "appendOnly"
          /\ bindings' \in Bindings
          /\ \A k \in Keys \ MutableKeys :
                bindings[k] # Unbound => bindings'[k] = bindings[k]
          /\ UNCHANGED mode

\* Destruction removes entries and never adds or replaces one.
Vanish == /\ mode = "gone"
          /\ bindings' \in Bindings
          /\ \A k \in Keys : bindings'[k] \in {bindings[k], Unbound}
          /\ UNCHANGED mode

ContractNext == \/ Open \/ Freeze \/ Close \/ Discard
                \/ Mutate \/ Append \/ Vanish

ContractSpec == ContractInit /\ [][ContractNext]_contractVars
================================================================================
