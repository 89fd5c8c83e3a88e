------------------------------- MODULE Actions -------------------------------
(***************************************************************************)
(* Actions and default values (gmock-actions.h, gmock-more-actions.h and   *)
(* gmock-generated-actions.h).  An action is written once, as an           *)
(* expression that is evaluated where the statement stands; it is          *)
(* converted to the type of each mock function it is given to, which makes *)
(* an object of its own; and it is performed by calls later on.  What it   *)
(* copies at which of the three times decides what a call gets.            *)
(*                                                                         *)
(* Memory is a tuple of cells, a pointer is the place of a cell, a null    *)
(* pointer is 0, and a call has a tuple of arguments.                      *)
(*                                                                         *)
(* Native arrays are kept and looked at through views (NativeArray of      *)
(* gtest-internal.h, StlContainerView of gmock-internal-utils.h), which    *)
(* come last.                                                              *)
(***************************************************************************)
EXTENDS Integers, Sequences, SequencesExt

Deleted == -1       \* what stands in a cell that was deleted
ExcessiveArg == -2  \* stands for an argument that a call does not have
MovedFrom == 0      \* what is left of a value that was moved

NoHandles ==
  [mem |-> << >>, errno |-> 0, moved |-> FALSE, handles |-> << >>, seen |-> << >>,
   answer |-> <<"none">>]

-----------------------------------------------------------------------------
(* The expression of an action: what it is given by value is copied.       *)
ByValue == {"Return", "ReturnByMove", "ReturnRefOfCopy", "SetErrnoAndReturn",
            "SetArgPointee", "SetArgReferee", "Assign", "Throw",
            "InvokeArgument", "ACTION_P", "ReturnNew"}

RECURSIVE Written(_, _)
Written(action, mem) ==
  CASE action.kind \in ByValue -> action @@ [value |-> mem[action.from]]
    [] action.kind \in {"WithArgs", "IgnoreResult"} ->
         [action EXCEPT !.inner = Written(@, mem)]
    [] action.kind = "DoAll" ->
         [action EXCEPT !.parts = [i \in DOMAIN @ |-> Written(@[i], mem)]]
    [] OTHER -> action

(* Its conversion to Action<F>: an object of its own, with a copy of the   *)
(* value that ReturnRefOfCopy answers with a reference to, and with its own*)
(* performed_; the payload of ByMove stays shared by all of them.          *)
RECURSIVE CopiedValue(_)
CopiedValue(action) ==
  CASE action.kind = "ReturnRefOfCopy" -> action.value
    [] action.kind \in {"WithArgs", "IgnoreResult"} -> CopiedValue(action.inner)
    [] action.kind = "DoAll" -> CopiedValue(Last(action.parts))
    [] OTHER -> MovedFrom

Converted(w, action) ==
  [w EXCEPT !.handles = Append(@, [performed |-> FALSE, copy |-> Len(w.mem) + 1]),
            !.mem = Append(@, CopiedValue(action))]

-----------------------------------------------------------------------------
Answers(w, answer) == [w EXCEPT !.answer = answer]
Void(w) == Answers(w, <<"void">>)
Writes(w, at, value) == Void([w EXCEPT !.mem[at] = value])
Ends(w) == w.answer[1] \in {"threw", "aborted"}

(* CopyElements: one element after the other, from [first, last). *)
CopyElements(w, first, last, output) ==
  FoldLeft(LAMBDA u, i : Writes(u, output + i, u.mem[first + i]),
           Void(w), [k \in 1 .. last - first |-> k - 1])

(* A function the user wrote, which notes the arguments it was called with.*)
Calls(w, args) ==
  Answers([w EXCEPT !.seen = Append(@, args)], <<"value", Len(w.seen) + 1>>)

(* Mutant: the value is taken when the action is performed. *)
ReturnLate(w, action) == Answers(w, <<"value", w.mem[action.from]>>)

PerformReturn(w, action) == Answers(w, <<"value", action.value>>)

PerformReturnByMove(w, h, action) ==
  IF w.handles[h].performed THEN Answers(w, <<"aborted">>)
  ELSE Answers([w EXCEPT !.handles[h].performed = TRUE, !.moved = TRUE],
               <<"value", IF w.moved THEN MovedFrom ELSE action.value>>)

PerformReturnRef(w, action) == Answers(w, <<"ref", action.at>>)
PerformReturnRefOfCopy(w, h) == Answers(w, <<"ref", w.handles[h].copy>>)
PerformReturnPointee(w, action) == Answers(w, <<"value", w.mem[action.at]>>)
PerformReturnArg(w, action, args) == Answers(w, <<"value", args[action.k]>>)

PerformReturnNew(w, action) ==
  Answers([w EXCEPT !.mem = Append(@, action.value)], <<"ref", Len(w.mem) + 1>>)

PerformSetErrnoAndReturn(w, action) ==
  Answers([w EXCEPT !.errno = action.errno], <<"value", action.value>>)

(* Functions of the user: called with the arguments of the call, without   *)
(* any, with what InvokeArgument was given; and the body of an ACTION_P,   *)
(* which gets its parameter and ten arguments, made up from what there is. *)
PerformInvoke(w, args) == Calls(w, args)
PerformInvokeWithoutArgs(w) == Calls(w, << >>)
PerformInvokeArgument(w, action) == Calls(w, <<action.value>>)

ActionArguments(args) == args \o [i \in 1 .. 10 - Len(args) |-> ExcessiveArg]
PerformACTION_P(w, action, args) == Calls(w, <<action.value>> \o ActionArguments(args))

(* Action::Perform of an action that is DoDefault inside of another. *)
IllegalDoDefault(w) == Answers(w, <<"aborted">>)

(* Actions that answer the call. *)
PerformAnswer(w, h, action, args) ==
  CASE action.kind = "Return" -> PerformReturn(w, action)
    [] action.kind = "ReturnByMove" -> PerformReturnByMove(w, h, action)
    [] action.kind = "ReturnNull" -> Answers(w, <<"value", 0>>)
    [] action.kind = "ReturnVoid" -> Void(w)
    [] action.kind = "ReturnRef" -> PerformReturnRef(w, action)
    [] action.kind = "ReturnRefOfCopy" -> PerformReturnRefOfCopy(w, h)
    [] action.kind = "ReturnPointee" -> PerformReturnPointee(w, action)
    [] action.kind = "ReturnArg" -> PerformReturnArg(w, action, args)
    [] action.kind = "ReturnNew" -> PerformReturnNew(w, action)
    [] action.kind = "SetErrnoAndReturn" -> PerformSetErrnoAndReturn(w, action)
    [] action.kind = "Throw" -> Answers(w, <<"threw", action.value>>)
    [] action.kind = "Invoke" -> PerformInvoke(w, args)
    [] action.kind = "InvokeWithoutArgs" -> PerformInvokeWithoutArgs(w)
    [] action.kind = "InvokeArgument" -> PerformInvokeArgument(w, action)
    [] action.kind = "ACTION_P" -> PerformACTION_P(w, action, args)
    [] action.kind = "DoDefault" -> IllegalDoDefault(w)

(* Actions for their effect. *)
PerformSaveArg(w, action, args) == Writes(w, action.at, args[action.k])
PerformSaveArgPointee(w, action, args) == Writes(w, action.at, w.mem[args[action.k]])
PerformSetArgPointee(w, action, args) == Writes(w, args[action.k], action.value)
PerformAssign(w, action) == Writes(w, action.at, action.value)
PerformDeleteArg(w, action, args) == Writes(w, args[action.k], Deleted)

PerformEffect(w, action, args) ==
  CASE action.kind = "SaveArg" -> PerformSaveArg(w, action, args)
    [] action.kind = "SaveArgPointee" -> PerformSaveArgPointee(w, action, args)
    [] action.kind \in {"SetArgPointee", "SetArgReferee"} ->
         PerformSetArgPointee(w, action, args)
    [] action.kind = "Assign" -> PerformAssign(w, action)
    [] action.kind = "SetArrayArgument" ->
         CopyElements(w, action.first, action.last, args[action.k])
    [] action.kind = "DeleteArg" -> PerformDeleteArg(w, action, args)

Effects == {"SaveArg", "SaveArgPointee", "SetArgPointee", "SetArgReferee",
            "Assign", "SetArrayArgument", "DeleteArg"}

RECURSIVE Perform(_, _, _, _)
Perform(w, h, action, args) ==
  CASE action.kind \in Effects -> PerformEffect(w, action, args)
    [] action.kind = "WithArgs" ->
         Perform(w, h, action.inner, [i \in DOMAIN action.ks |-> args[action.ks[i]]])
    [] action.kind = "IgnoreResult" ->
         LET done == Perform(w, h, action.inner, args)
         IN  IF Ends(done) THEN done ELSE Void(done)
    [] action.kind = "DoAll" ->
         FoldLeft(LAMBDA u, part : IF Ends(u) THEN u ELSE Perform(u, h, part, args),
                  Void(w), action.parts)
    [] OTHER -> PerformAnswer(w, h, action, args)

-----------------------------------------------------------------------------
(* A test: it writes an action, and converts it, performs it and changes   *)
(* variables in some order, also through a reference that a call returned; *)
(* a reference is noted with what it refers to at that time.               *)
Noted(w) ==
  IF w.answer[1] = "ref" THEN Append(w.answer, w.mem[w.answer[2]]) ELSE w.answer

TakeStep(w, action, op) ==
  CASE op.name = "convert" -> Answers(Converted(w, action), <<"none">>)
    [] op.name = "assign" -> Answers([w EXCEPT !.mem[op.at] = op.value], <<"none">>)
    [] op.name = "perform" -> Perform(w, op.handle, action, op.args)
    [] op.name = "write through" ->
         IF w.answer[1] = "ref" THEN [w EXCEPT !.mem[w.answer[2]] = op.value] ELSE w

(* Each answer is noted; one that may not be given ends the program.       *)
RECURSIVE Course(_, _, _)
Course(w, action, ops) ==
  IF ops = << >> \/ w.answer = <<"aborted">> THEN << >>
  ELSE LET next == TakeStep(w, action, Head(ops))
       IN  <<[answer |-> Noted(next), world |-> next]>> \o Course(next, action, Tail(ops))

CourseOf(recipe, mem, ops) ==
  Course([NoHandles EXCEPT !.mem = mem], Written(recipe, mem), ops)

-----------------------------------------------------------------------------
(* What a call of a function does that has no action for it, with the      *)
(* ON_CALLs of the function and the DefaultValue of its return type; the   *)
(* producer is << >> or what Produce will answer.                          *)
NoDefaults == [specs |-> << >>, producer |-> << >>, answer |-> <<"none">>]

MatchingSpecs(s, arg) == {i \in DOMAIN s.specs : arg \in s.specs[i].matcher}

FindOnCallSpec(s, arg) == CHOOSE i \in MatchingSpecs(s, arg) :
                            \A j \in MatchingSpecs(s, arg) : j <= i

BuiltInDefaultValueExists(type) == type = "default constructible"
BuiltInDefaultValue == 0

DefaultValueExists(s, type) == s.producer # << >> \/ BuiltInDefaultValueExists(type)
DefaultValueGet(s) == IF s.producer = << >> THEN BuiltInDefaultValue ELSE s.producer[1]

PerformDefaultAction(s, type, arg) ==
  IF MatchingSpecs(s, arg) # {} THEN <<"value", s.specs[FindOnCallSpec(s, arg)].value>>
  ELSE IF DefaultValueExists(s, type) THEN <<"value", DefaultValueGet(s)>>
  ELSE <<"threw">>

TakeDefault(s, type, op) ==
  CASE op.name = "ON_CALL" ->
         [s EXCEPT !.specs = Append(@, [matcher |-> op.matcher, value |-> op.value])]
    [] op.name = "Set" -> [s EXCEPT !.producer = <<op.value>>]
    [] op.name = "Clear" -> [s EXCEPT !.producer = << >>]
    [] op.name = "VerifyAndClear" -> [s EXCEPT !.specs = << >>]
    [] op.name = "call" -> [s EXCEPT !.answer = PerformDefaultAction(s, type, op.arg)]

DefaultsAfter(type, ops) ==
  FoldLeft(LAMBDA s, op : TakeDefault(s, type, op), NoDefaults, ops)
-----------------------------------------------------------------------------
(* What a call is to do, told apart from how it is done.                   *)

(* The parts of an action, with the arguments each gets, and whether its   *)
(* answer is wanted; an array is one part for each of its elements.        *)
RECURSIVE PartsOf(_, _, _)
PartsOf(recipe, args, wanted) ==
  CASE recipe.kind = "WithArgs" ->
         PartsOf(recipe.inner, [i \in DOMAIN recipe.ks |-> args[recipe.ks[i]]], wanted)
    [] recipe.kind = "IgnoreResult" -> PartsOf(recipe.inner, args, FALSE)
    [] recipe.kind = "DoAll" ->
         FlattenSeq([i \in DOMAIN recipe.parts |-> PartsOf(recipe.parts[i], args, wanted)])
    [] recipe.kind = "SetArrayArgument" ->
         [i \in 1 .. recipe.last - recipe.first |->
            [kind |-> "element", from |-> recipe.first + i - 1,
             to |-> args[recipe.k] + i - 1]]
    [] OTHER -> <<recipe @@ [args |-> args, wanted |-> wanted]>>

(* The first parts, up to one that throws or may not be performed; a value *)
(* that this handle moved already is such a one.                           *)
Stops(part, used) ==
  part.kind \in {"Throw", "DoDefault"} \/ (part.kind = "ReturnByMove" /\ used)

UpToStop(parts, used) ==
  IF \E n \in DOMAIN parts : Stops(parts[n], used)
    THEN SubSeq(parts, 1, SelectInSeq(parts, LAMBDA part : Stops(part, used)))
    ELSE parts

(* The cell a part writes, if any. *)
Target(part) ==
  CASE part.kind = "element" -> part.to
    [] part.kind \in {"SaveArg", "SaveArgPointee", "Assign"} -> part.at
    [] part.kind \in {"SetArgPointee", "SetArgReferee", "DeleteArg"} -> part.args[part.k]
    [] OTHER -> 0

(* A cell after n parts: it holds what its last writer put there, which is *)
(* a cell as it was before that part, an argument, or the value a variable *)
(* had when the action was written.                                        *)
RECURSIVE CellAfter(_, _, _, _, _)
CellAfter(parts, n, c, before, written) ==
  IF n = 0 THEN before[c]
  ELSE IF Target(parts[n]) # c THEN CellAfter(parts, n - 1, c, before, written)
  ELSE LET part == parts[n]
       IN  CASE part.kind = "element" -> CellAfter(parts, n - 1, part.from, before, written)
             [] part.kind = "SaveArgPointee" ->
                  CellAfter(parts, n - 1, part.args[part.k], before, written)
             [] part.kind = "SaveArg" -> part.args[part.k]
             [] part.kind = "DeleteArg" -> Deleted
             [] OTHER -> written[part.from]

(* What the last part of a call answers; used says that the handle was     *)
(* performed before, moved that some handle was.  "A ByMove() action should*)
(* only be performed once" (gmock-actions.h:590), but each conversion of it*)
(* counts for itself: all that is said of the second one is that it does   *)
(* not hand out the value again.                                           *)
IsAnswer(answer, parts, used, moved, before, written) ==
  LET part == Last(parts)
      now(c) == CellAfter(parts, Len(parts), c, before, written)
  IN  CASE part.kind = "Throw" -> answer = <<"threw", written[part.from]>>
        [] part.kind = "DoDefault" -> answer = <<"aborted">>
        [] part.kind = "ReturnByMove" /\ used -> answer = <<"aborted">>
        [] part.kind \in Effects \cup {"element"} -> answer = <<"void">>
        [] OTHER ->
             IF ~part.wanted THEN answer = <<"void">>
             ELSE CASE part.kind \in {"Return", "SetErrnoAndReturn"} ->
                         answer = <<"value", written[part.from]>>
                    [] part.kind = "ReturnByMove" ->
                         (answer = <<"value", written[part.from]>>) <=> ~moved
                    [] part.kind = "ReturnPointee" -> answer = <<"value", now(part.at)>>
                    [] part.kind = "ReturnRef" -> answer = <<"ref", part.at, now(part.at)>>
                    [] part.kind = "ReturnRefOfCopy" ->
                         /\ answer[2] \in Len(written) + 1 .. Len(before)
                         /\ answer = <<"ref", answer[2], before[answer[2]]>>
                    [] part.kind = "ReturnNew" ->
                         answer = <<"ref", Len(before) + 1, written[part.from]>>
                    [] part.kind = "ReturnArg" -> answer = <<"value", part.args[part.k]>>
                    [] part.kind = "ReturnNull" -> answer = <<"value", 0>>
                    [] OTHER -> answer[1] = "value"

(* The arguments that functions of the user are called with. *)
InvokedWith(parts, written) ==
  LET calls == SelectSeq(parts, LAMBDA part :
                 part.kind \in {"Invoke", "InvokeWithoutArgs", "InvokeArgument", "ACTION_P"})
  IN  [i \in DOMAIN calls |->
         CASE calls[i].kind = "Invoke" -> calls[i].args
           [] calls[i].kind = "InvokeWithoutArgs" -> << >>
           [] calls[i].kind = "InvokeArgument" -> <<written[calls[i].from]>>
           [] calls[i].kind = "ACTION_P" ->
                [n \in 1 .. 11 |-> IF n = 1 THEN written[calls[i].from]
                                   ELSE IF n - 1 \in DOMAIN calls[i].args
                                     THEN calls[i].args[n - 1] ELSE ExcessiveArg]]

(* One call, between the memory and the notes before it and those after.   *)
KeepsItsWord(whole, used, moved, before, after, answer, written) ==
  LET parts == UpToStop(whole, used)
  IN  /\ \A c \in DOMAIN written :
           after.mem[c] = CellAfter(parts, Len(parts), c, before.mem, written)
      /\ after.seen = before.seen \o InvokedWith(parts, written)
      /\ IsAnswer(answer, parts, used, moved, before.mem, written)

-----------------------------------------------------------------------------
(* Views of native arrays.  An element takes width cells: it may be an     *)
(* array itself.  array_ is the place of the first cell, size_ counts the  *)
(* elements, and clone_ is how a copy of the view is made.                 *)
Uninitialized == -3

NewViews(cells, width) == [mem |-> cells, width |-> width, views |-> << >>, deleted |-> << >>]

(* The recursion over the dimensions comes to the cells, in their order.   *)
ArrayEq(w, lhs, size, rhs) ==
  \A k \in 0 .. size * w.width - 1 : w.mem[lhs + k] = w.mem[rhs + k]

ArrayAwareFind(w, begin, end, elem) ==
  LET found == {i \in begin .. end - 1 : (i - begin) % w.width = 0 /\ ArrayEq(w, i, 1, elem)}
  IN  Min(found \cup {end})

CopyArray(w, from, size, to) ==
  FoldLeft(LAMBDA u, k : [u EXCEPT !.mem[to + k] = u.mem[from + k]],
           w, [k \in 1 .. size * w.width |-> k - 1])

View(array, size, clone) == [array_ |-> array, size_ |-> size, clone_ |-> clone]
InitRef(w, array, size) == [w EXCEPT !.views = Append(@, View(array, size, "InitRef"))]

InitCopy(w, array, size) ==
  LET copy == Len(w.mem) + 1
      allocated == [w EXCEPT !.mem = @ \o [k \in 1 .. size * w.width |-> Uninitialized]]
  IN  [CopyArray(allocated, array, size, copy) EXCEPT
         !.views = Append(@, View(copy, size, "InitCopy"))]

(* The constructors: of a view that references its source or copies it, and*)
(* of a view from another.                                                 *)
NativeArray(w, array, size, relation) ==
  IF relation = "RelationToSourceReference" THEN InitRef(w, array, size)
  ELSE InitCopy(w, array, size)

CloneView(w, rhs) ==
  IF rhs.clone_ = "InitRef" THEN InitRef(w, rhs.array_, rhs.size_)
  ELSE InitCopy(w, rhs.array_, rhs.size_)

EndOfView(w, v) == v.array_ + v.size_ * w.width

DestroyView(w, v) ==
  IF v.clone_ = "InitRef" THEN w
  ELSE FoldLeft(LAMBDA u, k : [u EXCEPT !.mem[v.array_ + k] = Deleted],
                [w EXCEPT !.deleted = Append(@, v.array_)],
                [k \in 1 .. v.size_ * w.width |-> k - 1])

ViewsEqual(w, lhs, rhs) ==
  lhs.size_ = rhs.size_ /\ ArrayEq(w, lhs.array_, lhs.size_, rhs.array_)

(* StlContainerView of the array, or of a pointer and a size. *)
ConstReference(w, array, size) == NativeArray(w, array, size, "RelationToSourceReference")
CopyOf(w, array, size) == NativeArray(w, array, size, "RelationToSourceCopy")

(* What a test does with views of an array of its own, which it may write. *)
ViewStep(w, op) ==
  CASE op.name = "ConstReference" -> ConstReference(w, op.array, op.size)
    [] op.name = "Copy" -> CopyOf(w, op.array, op.size)
    [] op.name = "clone" -> CloneView(w, w.views[op.view])
    [] op.name = "destroy" -> DestroyView(w, w.views[op.view])
    [] op.name = "write" -> [w EXCEPT !.mem[op.at] = op.value]

ViewsAfter(cells, width, ops) == FoldLeft(ViewStep, NewViews(cells, width), ops)

(* The places where a test makes a view, in their order; and that it only  *)
(* uses views that it made and has not destroyed.                          *)
MakesView(op) == op.name \in {"ConstReference", "Copy", "clone"}
Making(ops) == SelectSeq([i \in DOMAIN ops |-> i], LAMBDA i : MakesView(ops[i]))
Lives(ops, v) ==
  v \in DOMAIN Making(ops) /\ \A i \in DOMAIN ops : ops[i] # [name |-> "destroy", view |-> v]
IsLegal(ops) ==
  \A i \in DOMAIN ops :
    ops[i].name \in {"clone", "destroy"} => Lives(SubSeq(ops, 1, i - 1), ops[i].view)

(* The place where the view was made from the array that a view goes back  *)
(* to; and what it is to show: that array as it was then, if that made a   *)
(* copy, and as it is now, if it made a reference.                         *)
RECURSIVE Source(_, _)
Source(ops, v) ==
  LET i == Making(ops)[v]
  IN  IF ops[i].name = "clone" THEN Source(ops, ops[i].view) ELSE i

SourceCells(cells, ops) ==
  [c \in DOMAIN cells |->
     LET writes == SelectSeq(ops, LAMBDA op : op.name = "write" /\ op.at = c)
     IN  IF writes = << >> THEN cells[c] ELSE Last(writes).value]

ShouldShow(cells, width, ops, v) ==
  LET op == ops[Source(ops, v)]
      time == IF op.name = "Copy" THEN Source(ops, v) ELSE Len(ops)
  IN  SubSeq(SourceCells(cells, SubSeq(ops, 1, time)), op.array,
             op.array + op.size * width - 1)
=============================================================================
