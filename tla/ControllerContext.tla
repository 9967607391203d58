-------------------------- MODULE ControllerContext --------------------------
(***************************************************************************)
(* Which controllers a list of flags enables.  A flag is "*" or the name   *)
(* of a controller, with a minus before it or not.                         *)
(***************************************************************************)
EXTENDS SequencesExt

CONSTANTS Names      \* names of controllers

On(name) == [name |-> name, on |-> TRUE]
Off(name) == [name |-> name, on |-> FALSE]
Star == [name |-> "*", on |-> TRUE]
Flags == {On(n) : n \in Names} \cup {Off(n) : n \in Names} \cup {Star}

\* Mutant: the star decides where it stands.
Visit_StarReturns(seen, name, flag) ==
  IF seen.result # "none" THEN seen
  ELSE IF flag \in {On(name), Star} THEN [seen EXCEPT !.result = "yes"]
  ELSE IF flag = Off(name) THEN [seen EXCEPT !.result = "no"]
  ELSE seen

\* One turn of the loop of IsControllerEnabled; a result other than "none" has
\* been returned already.
Visit(seen, name, flag) ==
  IF seen.result # "none" THEN seen
  ELSE IF flag = On(name) THEN [seen EXCEPT !.result = "yes"]
  ELSE IF flag = Off(name) THEN [seen EXCEPT !.result = "no"]
  ELSE IF flag = Star THEN [seen EXCEPT !.hasStar = TRUE]
  ELSE seen

\* The loop after all flags: a fold, as a recursive function.
Seen(name, flags) ==
  LET loop[i \in 0 .. Len(flags)] ==
        IF i = 0 THEN [result |-> "none", hasStar |-> FALSE]
                 ELSE Visit(loop[i - 1], name, flags[i])
  IN  loop[Len(flags)]

IsControllerEnabled(name, flags, disabledByDefault) ==
  LET seen == Seen(name, flags)
  IN  IF seen.result # "none" THEN seen.result = "yes"
      ELSE IF ~seen.hasStar THEN FALSE
      ELSE name \notin disabledByDefault
=============================================================================
