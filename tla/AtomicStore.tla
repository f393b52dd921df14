------------------------------ MODULE AtomicStore ------------------------------
(***************************************************************************)
(* What the repository promises of its instances: a request of the single  *)
(* writer takes effect at once or not at all, is answered "ok" only when   *)
(* it has taken effect, and a crash of the CIM server loses the request's  *)
(* answer but neither a change that was made nor half of one.              *)
(*                                                                         *)
(* One class is excepted, which no comment of the code says: a class that  *)
(* holds no instance is Blank while a request begins to work on it, and a  *)
(* request that fails or is lost then may leave it so.  It still reads as  *)
(* a class without instances, but the next instance that is created in it  *)
(* may not be readable, and nothing is said of the class after that.       *)
(*                                                                         *)
(* InstanceStore, the files and the rollback files of FileBasedStore, is   *)
(* shown to implement this module.                                         *)
(***************************************************************************)
CONSTANTS
    Class,      \* the classes of a namespace
    Name,       \* the instance names of a class
    Value,      \* what an instance may hold
    None,       \* no instance of that name, or no request
    Blank,      \* no instance, of a class that loses what is created in it
    Torn        \* an instance that cannot be read

VARIABLES
    contents,   \* contents[c][n]: the instance n of class c, or None
    request,    \* the request the writer is working on, or None
    done,       \* whether that request has taken effect
    answer      \* how the last request that was answered ended

vars == <<contents, request, done, answer>>

Request ==
    [kind : {"create", "modify"}, class : Class, name : Name, value : Value]
        \cup [kind : {"delete"}, class : Class, name : Name]
        \cup [kind : {"deleteClass"}, class : Class]

Absence == {None, Blank}

Filled(c, what) == [contents EXCEPT ![c] = [n \in Name |-> what]]

Allowed(r) ==
    CASE r.kind = "create"      -> contents[r.class][r.name] \in Absence
      [] r.kind = "deleteClass" -> \A n \in Name : contents[r.class][n] \in Absence
      [] OTHER                  -> contents[r.class][r.name] \notin Absence

Outcomes(r) ==
    CASE r.kind = "deleteClass" -> {Filled(r.class, None)}
      [] r.kind = "delete"      -> {[contents EXCEPT ![r.class][r.name] = None]}
      [] OTHER                  ->
            IF contents[r.class][r.name] = Blank
            THEN {Filled(r.class, Torn),
                  [Filled(r.class, None) EXCEPT ![r.class][r.name] = r.value]}
            ELSE {[contents EXCEPT ![r.class][r.name] = r.value]}

Init ==
    /\ contents = [c \in Class |-> [n \in Name |-> None]]
    /\ request = None
    /\ done = FALSE
    /\ answer = "none"

Submit(r) ==
    /\ request = None
    /\ request' = r
    /\ answer' = "none"
    /\ UNCHANGED <<contents, done>>

Perform ==
    /\ request # None
    /\ ~done
    /\ Allowed(request)
    /\ contents' \in Outcomes(request)
    /\ done' = TRUE
    /\ UNCHANGED <<request, answer>>

(* A request begins to work on a class without instances. *)
Expose ==
    /\ request # None
    /\ ~done
    /\ \A n \in Name : contents[request.class][n] = None
    /\ contents' = Filled(request.class, Blank)
    /\ UNCHANGED <<request, done, answer>>

Restore ==
    /\ request # None
    /\ ~done
    /\ \A n \in Name : contents[request.class][n] = Blank
    /\ contents' = Filled(request.class, None)
    /\ UNCHANGED <<request, done, answer>>

Answer ==
    /\ request # None
    /\ answer' = IF done THEN "ok" ELSE "failed"
    /\ request' = None
    /\ done' = FALSE
    /\ UNCHANGED contents

Crash ==
    /\ request' = None
    /\ done' = FALSE
    /\ answer' = "none"
    /\ UNCHANGED contents

Next ==
    \/ \E r \in Request : Submit(r)
    \/ Perform
    \/ Expose
    \/ Restore
    \/ Answer
    \/ Crash

Spec == Init /\ [][Next]_vars
=============================================================================
