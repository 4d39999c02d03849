---------------------------- MODULE MatcVariables ----------------------------
(***************************************************************************)
(* The variables of MATC, the expression language of Elmer's input files   *)
(* (src/matc/src): the list VAR_HEAD of named variables, the matrices they *)
(* share by reference count, the list of variables of each running         *)
(* function, and the recovery from an error, which frees what the failing  *)
(* call has allocated and puts the head of the list back.                  *)
(*                                                                         *)
(* A call is one string given to mtc_domath: a sequence of statements,     *)
(* evaluated step by step on a stack of temporaries; an error may come     *)
(* between any two steps.  Values are the members of Contents, of which    *)
(* the statements tell apart the size only.  A function has at most one    *)
(* parameter, one import, one export and one result; its body is any       *)
(* sequence of statements.                                                 *)
(***************************************************************************)
EXTENDS Integers, Sequences, FiniteSets

CONSTANTS
    Nodes,        \* addresses of VARIABLE structures
    Matrices,     \* addresses of MATRIX structures
    Null,         \* the null pointer, and no name
    Names,        \* names of variables, numbered in the order of strcmp
    Ans,          \* the name "ans", which every statement deletes
    Param,        \* the parameter of the function,
    Import,       \* its imported variable or Null,
    Export,       \* its exported variable or Null,
    Result,       \* and "_name", the variable of its result
    Contents,     \* values of a matrix
    Size,         \* the size of each value
    IndexShared,  \* whether x[i] = ... may meet a matrix with other references
    LateErrors,   \* whether an error may come after the call has changed
                  \* the list it began with
    MaxDepth,     \* bound: functions running inside each other
    MaxTemps,     \* bound: temporaries
    MaxLost       \* bound: matrices with references lost in errors, and
                  \* the lost references of each

ASSUME NullIsNone == Null \notin Nodes \cup Matrices \cup Names \cup Contents
ASSUME NamesAreOrdered == Names \subseteq Nat
ASSUME FunctionNames ==
    /\ Ans \in Names /\ Param \in Names /\ Result \in Names
    /\ Import \in Names \cup {Null} /\ Export \in Names \cup {Null}
ASSUME SizesAreNumbers == Size \in [Contents -> Nat]
ASSUME FiniteMemory == IsFiniteSet(Nodes) /\ IsFiniteSet(Matrices) /\ Nodes \cap Matrices = {}
ASSUME Switches == IndexShared \in BOOLEAN /\ LateErrors \in BOOLEAN
ASSUME Bounds == MaxDepth \in Nat /\ MaxTemps \in Nat /\ MaxLost \in Nat

VARIABLES
    env,      \* memory, and the current list VAR_HEAD:
              \*   list: the nodes of the list, its head first
              \*   name, this: of each node; Null when the node is free
              \*   refcnt, content: of each matrix; Null content when it is free
    temps,    \* the matrices of the temporaries, in the order of evaluation,
              \* of all running functions; Null for an expression without value
    begin,    \* how many of them were there when the present statement began
    callers,  \* for each running function, outermost first: the caller's
              \* list (headsave of fnc_exec), the caller's `begin`, and how
              \* many temporaries there were when the function began
    recent,   \* nodes and matrices on the list ALLOC_HEAD of this call
    saved,    \* headsave: VAR_HEAD when the call began
    touched,  \* the call may have changed the list it began with
    lost      \* references of each matrix that nothing holds: those of the
              \* temporaries an error left behind

vars == <<env, temps, begin, callers, recent, saved, touched, lost>>

Env == [list : Seq(Nodes), name : [Nodes -> Names \cup {Null}],
        this : [Nodes -> Matrices \cup {Null}],
        refcnt : [Matrices -> Int], content : [Matrices -> Contents \cup {Null}]]

Elements(s) == {s[i] : i \in DOMAIN s}

Allocated(e) == {n \in Nodes : e.this[n] # Null}
                    \cup {m \in Matrices : e.content[m] # Null}

\* The nodes that share a matrix.
Sharers(e, m) == {n \in Nodes : e.this[n] = m}

-----------------------------------------------------------------------------
(* The list and the matrices: lists.c, oper.c, variable.c.                 *)

\* lst_find on VARIABLES.
Defined(e, r) == \E i \in DOMAIN e.list : e.name[e.list[i]] = r

Place(e, r) == CHOOSE i \in DOMAIN e.list :
                  /\ e.name[e.list[i]] = r
                  /\ \A j \in 1 .. (i - 1) : e.name[e.list[j]] # r

Find(e, r) == e.list[Place(e, r)]

\* mem_alloc: some free address.
NewNode(e) == CHOOSE n \in Nodes : e.this[n] = Null
NewMatrix(e) == CHOOSE m \in Matrices : e.content[m] = Null

\* mat_new or mat_copy, and the one reference of its variable.
Create(e, m, c) == [e EXCEPT !.refcnt[m] = 1, !.content[m] = c]

Hold(e, m) == [e EXCEPT !.refcnt[m] = @ + 1]

\* if (--REFCNT(ptr) == 0) free the matrix.
Release(e, m) ==
    [e EXCEPT !.refcnt[m] = @ - 1,
              !.content[m] = IF e.refcnt[m] = 1 THEN Null ELSE @]

\* A new node in the list at place i: lst_addhead at place 1.
AddAt(e, i, r, m) ==
    LET n == NewNode(e)
    IN  [e EXCEPT !.list = SubSeq(@, 1, i - 1) \o <<n>> \o SubSeq(@, i, Len(@)),
                  !.name[n] = r, !.this[n] = m]

\* lst_add: before the first node with a larger name.
AddByName(e, r, m) ==
    AddAt(e, CHOOSE i \in 1 .. (Len(e.list) + 1) :
                /\ i <= Len(e.list) => e.name[e.list[i]] > r
                /\ \A j \in 1 .. (i - 1) : e.name[e.list[j]] <= r,
          r, m)

\* lst_unlink and the release of the node.
Drop(e, i) ==
    [e EXCEPT !.list = SubSeq(@, 1, i - 1) \o SubSeq(@, i + 1, Len(@)),
              !.name[e.list[i]] = Null, !.this[e.list[i]] = Null]

\* var_delete
Delete(e, r) ==
    IF Defined(e, r) THEN Drop(Release(e, e.this[Find(e, r)]), Place(e, r)) ELSE e

\* var_free: the variables of the list and their references.
Free(e) ==
    LET gone == Elements(e.list)
        count(m) == Cardinality(Sharers(e, m) \cap gone)
    IN  [list |-> <<>>,
         name |-> [n \in Nodes |-> IF n \in gone THEN Null ELSE e.name[n]],
         this |-> [n \in Nodes |-> IF n \in gone THEN Null ELSE e.this[n]],
         refcnt |-> [m \in Matrices |-> e.refcnt[m] - count(m)],
         content |-> [m \in Matrices |->
                        IF e.refcnt[m] \in 1 .. count(m) THEN Null ELSE e.content[m]]]

-----------------------------------------------------------------------------
(* The assignment of a temporary that holds matrix m: variable.c, eval.c.  *)

\* A slip for the checks to catch: the old matrix keeps the reference.
RenameKeepingOld(e, m, r) ==
    IF Defined(e, r) THEN [e EXCEPT !.this[Find(e, r)] = m] ELSE AddAt(e, 1, r, m)

\* var_rename
Rename(e, m, r) ==
    CASE ~Defined(e, r) /\ e.refcnt[m] > 1 ->
            LET k == NewMatrix(e)
            IN  AddAt(Create(Release(e, m), k, e.content[m]), 1, r, k)
      [] ~Defined(e, r) /\ e.refcnt[m] <= 1 -> AddAt(e, 1, r, m)
      [] Defined(e, r) ->
            LET v == Find(e, r)
                old == e.this[v]
            IN  IF Size[e.content[old]] = Size[e.content[m]]
                THEN Release([e EXCEPT !.content[old] = e.content[m]], m)
                ELSE [Release(e, old) EXCEPT !.this[v] = m]

\* put_values gives the variable r the value c, by the list of indexes; with a
\* mask of the variable's own shape it writes in place.
PutValues(e, r, c, masked) ==
    LET k == NewMatrix(e) IN
    IF ~Defined(e, r) THEN AddAt(Create(e, k, c), 1, r, k)
    ELSE LET v == Find(e, r)
             old == e.this[v]
         IN  CASE Size[c] > Size[e.content[old]] ->
                    [Create(Release(e, old), k, c) EXCEPT !.this[v] = k]
               [] Size[c] <= Size[e.content[old]] /\ e.refcnt[old] > 1 /\ ~masked ->
                    [e EXCEPT !.refcnt[old] = @ - 1, !.this[v] = k, !.content[k] = c]
               [] OTHER -> [e EXCEPT !.content[old] = c]

\* put_result
PutResult(e, m, r) == Rename(Delete(e, Ans), m, r)

-----------------------------------------------------------------------------

Init ==
    /\ env = [list |-> <<>>, name |-> [n \in Nodes |-> Null],
              this |-> [n \in Nodes |-> Null],
              refcnt |-> [m \in Matrices |-> 0], content |-> [m \in Matrices |-> Null]]
    /\ temps = <<>> /\ begin = 0
    /\ callers = <<>>
    /\ recent = {}
    /\ saved = Null
    /\ touched = FALSE
    /\ lost = [m \in Matrices |-> 0]

\* Bound: a step finds the memory it may allocate.
Room(nodes, matrices) ==
    /\ Cardinality({n \in Nodes : env.this[n] = Null}) >= nodes
    /\ Cardinality({m \in Matrices : env.content[m] = Null}) >= matrices

\* The environment is now e; ALLOC_HEAD holds what was allocated in this call.
Becomes(e) ==
    /\ env' = e
    /\ recent' = Allocated(e) \ (Allocated(env) \ recent)
    /\ lost' = [m \in Matrices |-> IF e.content[m] = Null THEN 0 ELSE lost[m]]

\* mtc_domath and doread: the call ends and the next begins.
NewCall ==
    /\ callers = <<>> /\ temps = <<>>
    /\ recent' = {}
    /\ saved' = IF env.list = <<>> THEN Null ELSE Head(env.list)
    /\ touched' = FALSE
    /\ UNCHANGED <<env, temps, begin, callers, lost>>

-----------------------------------------------------------------------------
(* Expressions: evaltree.                                                  *)

\* The k temporaries evaluated last are of the present statement.
Evaluated(k) == Len(temps) >= begin + k

Top(k) == temps[Len(temps) + 1 - k]
Under(k) == SubSeq(temps, 1, Len(temps) - k)

\* var_delete_temp
Dispose(e, m) == IF m = Null THEN e ELSE Release(e, m)
DisposeTop(e, k) ==
    CASE k = 0 -> e
      [] k = 1 -> Dispose(e, Top(1))
      [] k = 2 -> Dispose(Dispose(e, Top(1)), Top(2))

\* A step of an expression takes k temporaries and leaves one, of matrix m.
Leave(e, k, m) ==
    /\ Evaluated(k)
    /\ Becomes(DisposeTop(e, k))
    /\ temps' = Append(Under(k), m)
    /\ Len(temps') <= MaxTemps
    /\ UNCHANGED <<begin, callers, saved>>

\* A constant, a command, an operator, an element: a new matrix or no value.
Compute(k, c) ==
    /\ IF c = Null THEN Leave(env, k, Null)
       ELSE LET m == NewMatrix(env) IN Room(0, 1) /\ Leave(Create(env, m, c), k, m)
    /\ UNCHANGED touched

\* The matrix of a variable.
Matrix(q) == env.this[Find(env, q)]

\* A variable's name: the temporary shares its matrix.
Read(q) ==
    /\ Defined(env, q)
    /\ Leave(Hold(env, Matrix(q)), 0, Matrix(q))
    /\ UNCHANGED touched

\* delete("q")
DeleteVariable(q) ==
    /\ Defined(env, q)
    /\ Leave(Delete(env, q), 1, Null)
    /\ touched' = (touched \/ callers = <<>>)

\* clear()
Clear ==
    /\ Leave(Free(env), 0, Null)
    /\ touched' = (touched \/ callers = <<>>)

-----------------------------------------------------------------------------
(* Statements: evalclause.                                                 *)

\* The end of a statement that has k temporaries; e is without them.
Statement(e, k) ==
    /\ Becomes(e)
    /\ temps' = Under(k)
    /\ touched' = (touched \/ callers = <<>>)
    /\ UNCHANGED <<begin, callers, saved>>

\* r = expression, or an expression, whose value goes to ans
Assign(r) ==
    /\ Len(temps) = begin + 1
    /\ IF Top(1) = Null THEN Statement(Delete(env, Ans), 1)
                        ELSE Room(1, 1) /\ Statement(PutResult(env, Top(1), r), 1)

\* r[...] = expression, which leaves the value c in r
AssignElements(r, c, masked) ==
    /\ Len(temps) = begin + 2 /\ Top(1) # Null /\ Top(2) # Null
    /\ Room(1, 1)
    /\ Defined(env, r) =>
            LET s == Size[env.content[Matrix(r)]] IN
            /\ Size[c] >= s
            /\ masked => Size[c] = s
            /\ Size[c] = s => IndexShared \/ env.refcnt[Matrix(r)] = 1
    /\ Statement(DisposeTop(PutValues(Delete(env, Ans), r, c, masked), 2), 2)

\* if and while: the value of the condition stays while the block is run.
BeginBlock ==
    /\ Len(temps) = begin + 1 /\ Top(1) # Null
    /\ begin' = begin + 1
    /\ UNCHANGED <<env, temps, callers, recent, saved, touched, lost>>

\* How many temporaries there were when the running function began.
Floor == IF callers = <<>> THEN 0 ELSE callers[Len(callers)].floor

EndBlock ==
    /\ Len(temps) = begin /\ begin > Floor
    /\ Becomes(DisposeTop(env, 1))
    /\ temps' = Under(1)
    /\ begin' = begin - 1
    /\ UNCHANGED <<callers, saved, touched>>

-----------------------------------------------------------------------------
(* Functions: fnc_exec.                                                    *)

\* Up to the body, with k arguments: the parameter is the temporary of the
\* argument; the import is a copy, unless the parameter has its name.
Imports(m) == Import # Null /\ Defined(env, Import) /\ (m # Null => Import # Param)

WithImport(e, m) ==
    IF Imports(m)
    THEN LET i == NewMatrix(e)
         IN  AddByName(Create(e, i, env.content[Matrix(Import)]), Import, i)
    ELSE e

WithParam(e, m) == IF m = Null THEN e ELSE AddAt(e, 1, Param, m)

Call(k) ==
    /\ Evaluated(k) /\ Len(callers) < MaxDepth
    /\ Room(2, 1)
    /\ LET m == IF k = 0 THEN Null ELSE Top(1)
       IN  Becomes(WithImport(WithParam([env EXCEPT !.list = <<>>], m), m))
    /\ temps' = Under(k)
    /\ begin' = Len(temps')
    /\ callers' = Append(callers, [list |-> env.list, begin |-> begin, floor |-> Len(temps')])
    /\ UNCHANGED <<saved, touched>>

\* From the body's end: the exported variable shares its matrix with a new
\* variable of the caller's list; the result is taken from the function's list
\* and becomes a temporary of the caller, and the other local variables end.
Exports == Export # Null /\ Defined(env, Export)

\* A slip for the checks to catch: the caller's variable of that name stays.
ExportBeside(list) ==
    IF Exports
    THEN AddByName([Hold(env, Matrix(Export)) EXCEPT !.list = list],
                   Export, Matrix(Export))
    ELSE [env EXCEPT !.list = list]

ExportTo(list) ==
    IF Exports
    THEN AddByName(Delete([Hold(env, Matrix(Export)) EXCEPT !.list = list], Export),
                   Export, Matrix(Export))
    ELSE [env EXCEPT !.list = list]

Return ==
    /\ callers # <<>> /\ Len(temps) = begin /\ begin = Floor
    /\ Room(1, 0)
    /\ LET caller == callers[Len(callers)]
           out == ExportTo(caller.list)
           local == [out EXCEPT !.list = env.list]
           left == Free(IF Defined(env, Result) THEN Drop(local, Place(env, Result))
                                                ELSE local)
       IN  /\ Becomes([left EXCEPT !.list = out.list])
           /\ begin' = caller.begin
    /\ temps' = Append(temps, IF Defined(env, Result) THEN Matrix(Result) ELSE Null)
    /\ Len(temps') <= MaxTemps
    /\ callers' = SubSeq(callers, 1, Len(callers) - 1)
    /\ touched' = (touched \/ (Len(callers) = 1 /\ Exports))
    /\ UNCHANGED saved

-----------------------------------------------------------------------------
(* Errors: error and the recovery of mtc_domath.                           *)

\* Slips for the checks to catch: VAR_HEAD stays, and what follows it is missed.
RestoredNot == env.list
RestoredHead == <<saved>>

\* The list that begins at headsave.
Restored ==
    LET list == IF callers = <<>> THEN env.list ELSE callers[1].list
    IN  IF saved = Null THEN <<>>
        ELSE IF saved \in Elements(list)
        THEN SubSeq(list, CHOOSE i \in DOMAIN list : list[i] = saved, Len(list))
        ELSE <<saved>>

\* The temporaries that refer to matrix m.
Held(stack, m) == Cardinality({i \in DOMAIN stack : stack[i] = m})

\* The memory of the call is freed, VAR_HEAD is what it was, and the next call
\* begins.  The references of the temporaries and of the variables that were
\* freed are not given back.
Error ==
    /\ LateErrors \/ ~touched
    /\ LET left(m) == Held(temps, m) + Cardinality(Sharers(env, m) \cap recent)
       IN  /\ env' = [list |-> Restored,
                      name |-> [n \in Nodes |-> IF n \in recent THEN Null ELSE env.name[n]],
                      this |-> [n \in Nodes |-> IF n \in recent THEN Null ELSE env.this[n]],
                      refcnt |-> [m \in Matrices |-> IF m \in recent THEN 0 ELSE env.refcnt[m]],
                      content |-> [m \in Matrices |->
                                    IF m \in recent THEN Null ELSE env.content[m]]]
           /\ lost' = [m \in Matrices |-> IF m \in recent THEN 0 ELSE lost[m] + left(m)]
           /\ Cardinality({m \in Matrices : lost'[m] > 0}) <= MaxLost
           /\ \A m \in Matrices : lost'[m] <= MaxLost
    /\ saved' = IF Restored = <<>> THEN Null ELSE Head(Restored)
    /\ temps' = <<>> /\ begin' = 0
    /\ callers' = <<>>
    /\ recent' = {}
    /\ touched' = FALSE

Next ==
    \/ NewCall
    \/ \E k \in 0 .. 2, c \in Contents \cup {Null} : Compute(k, c)
    \/ \E r \in Names : \/ Read(r) \/ DeleteVariable(r) \/ Assign(r)
                        \/ \E c \in Contents, masked \in BOOLEAN : AssignElements(r, c, masked)
    \/ Clear
    \/ BeginBlock \/ EndBlock
    \/ \E k \in {0, 1} : Call(k)
    \/ Return
    \/ Error

Spec == Init /\ [][Next]_vars

-----------------------------------------------------------------------------
(* Properties.                                                             *)

\* The lists that will be current again: the present one and those of the callers.
Lists == {env.list} \cup {callers[i].list : i \in DOMAIN callers}

TypeOK ==
    /\ env \in Env
    /\ temps \in Seq(Matrices \cup {Null}) /\ begin \in Nat
    /\ callers \in Seq([list : Seq(Nodes), begin : Nat, floor : Nat])
    /\ recent \subseteq Nodes \cup Matrices
    /\ saved \in Nodes \cup {Null}
    /\ touched \in BOOLEAN
    /\ lost \in [Matrices -> Nat]

\* The reference count of a matrix in use is the number of variables and temporaries
\* that share it, apart from the references an error has lost: it is neither freed
\* while one refers to it nor kept when none does (mat_new, var_rename, var_delete,
\* var_delete_temp, fnc_exec).
RefCounts ==
    \A m \in Matrices :
        IF env.content[m] = Null
        THEN env.refcnt[m] = 0 /\ Sharers(env, m) = {} /\ Held(temps, m) = 0
        ELSE /\ env.refcnt[m] = Cardinality(Sharers(env, m)) + Held(temps, m) + lost[m]
             /\ env.refcnt[m] > 0

\* Every variable of a list, also of the caller's list a function or an error
\* will go back to, is allocated and refers to an allocated matrix, and no
\* variable is allocated that is on no list (lst_unlink, fnc_exec, error).
NoDangling ==
    /\ \A list \in Lists : \A n \in Elements(list) :
            env.this[n] # Null /\ env.content[env.this[n]] # Null
    /\ \A n \in Nodes : env.this[n] # Null => \E list \in Lists : n \in Elements(list)

\* A list has one variable of a name, so that lst_find finds the one last
\* assigned: the export of a variable replaces the caller's, an import does not
\* come beside a parameter.
UniqueNames ==
    \A list \in Lists : \A i, j \in DOMAIN list :
        env.name[list[i]] = env.name[list[j]] => i = j

\* An assignment is a copy (eval.c:912-914): a statement changes the value of
\* one variable at most, of those that are there before and after it.
Value(n) == env.content[env.this[n]]
AssignmentIsCopy ==
    [][\A i, j \in Nodes :
          (i # j /\ \A n \in {i, j} : env.this[n] # Null /\ env'.this[n] # Null)
            => Value(i)' = Value(i) \/ Value(j)' = Value(j)]_vars
=============================================================================
