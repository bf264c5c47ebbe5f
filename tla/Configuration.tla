--------------------------- MODULE Configuration ---------------------------
(***************************************************************************)
(* struct arguments of src/src/cli.h, as cli.c fills and merges it.  Of a  *)
(* value only its origin is kept: what matters is which source won.        *)
(***************************************************************************)

CONSTANTS
  StringFields,  \* members that are strings and have no default value
  NumberFields   \* "port" and "validate"; 0 stands for a member not set

ASSUME FieldsAssumption ==
  StringFields \cap NumberFields = {} /\ StringFields # {}

Fields == StringFields \cup NumberFields

Origins == {"NULL", "default", "config", "cli"}

Arguments == [Fields -> Origins]

(* create_args(): everything is NULL, 0 or unset. *)
create_args == [f \in Fields |-> "NULL"]

(* The members a source provides; a strdup() that fails is not noticed.    *)
(* A port that is 0, as atol() reads a word, is not provided: 0 is what a  *)
(* member holds that is not set.                                           *)
From(origin, provided, lost) ==
  [f \in Fields |-> IF f \in provided \ lost THEN origin ELSE "NULL"]

(* What main() sets before it calls handle_args(). *)
DefaultArguments == From("default", NumberFields, {})

(* Seeded fault: only members that are not set yet are taken over. *)
FirstSourceWins(base, new, lost) ==
  [f \in Fields |-> IF base[f] # "NULL" THEN base[f] ELSE new[f]]

(* The strings of "new" are duplicated: those in "lost" become NULL. *)
merge_config(base, new, lost) ==
  [f \in Fields |-> IF new[f] = "NULL" THEN base[f]
                    ELSE IF f \in lost \cap StringFields THEN "NULL"
                    ELSE new[f]]

=============================================================================
