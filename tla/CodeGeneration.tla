---------------------------- MODULE CodeGeneration ----------------------------
(***************************************************************************)
(* Generating code for a pipeline. The sinks are opened; a suboperator     *)
(* requests its IUs, their providers generate their code and notify the    *)
(* requestor, which generates its own when all its IUs are there. Loops and*)
(* filters leave the block they opened current, so that what reads them is *)
(* generated inside; they end it when the last of their readers closes.    *)
(*                                                                         *)
(* The calls are nested: todo is the rest of what every active call still  *)
(* has to do, the innermost first. Every step is what one call does up to  *)
(* the calls that it makes.                                                *)
(*                                                                         *)
(* The pipelines are those of a query that is ready to run, each compiled  *)
(* as a whole and in intervals for relaxed operator fusion; and, when the  *)
(* program starts, those of all fragments of the interpreter.              *)
(***************************************************************************)
EXTENDS InterpreterFragments

CONSTANTS
  FirstPlans (* plans a program may begin with: it fills its FragmentCache  *)

VARIABLES
  job,       (* what is compiled: a kind, suboperators, their producers     *)
  todo,      (* calls that are still to be made, innermost first            *)
  props,     (* CompilationContext::properties, and whether it was opened   *)
  computed,  (* CompilationContext::computed                                *)
  requests,  (* CompilationContext::requests: the requestor of a provider   *)
  blocks,    (* the blocks of the function; the first is its body           *)
  curr,      (* FunctionBuilder::curr_block                                 *)
  scopes     (* the If or While that a suboperator has begun                *)

compileVars == <<job, todo, props, computed, requests, blocks, curr, scopes>>

subops == job.subops
Positions == DOMAIN subops

NoJob == [kind |-> "none", subops |-> << >>, producers |-> << >>]
NoScope == [body |-> 0, original |-> 0]
Job(kind, ops) ==
  [kind |-> kind, subops |-> ops, producers |-> [i \in DOMAIN ops |-> Producers(ops, i)]]
Idle ==
  /\ job = NoJob /\ todo = << >> /\ props = << >> /\ computed = {} /\ requests = << >>
  /\ blocks = << >> /\ curr = 0 /\ scopes = << >>

-----------------------------------------------------------------------------
(* The call stack.                                                         *)

Task(do, at) == [do |-> do, at |-> at, iu |-> NoIU]
OnIU(do, at, iu) == [do |-> do, at |-> at, iu |-> iu]
Each(do, ats) == [k \in DOMAIN ats |-> Task(do, ats[k])]
me == Head(todo).at
mine == subops[me]
Call(do) == todo # << >> /\ Head(todo).do = do /\ UNCHANGED <<vars, job>>
Then(tasks) == todo' = tasks \o Tail(todo)
Throw == todo' = <<Task("thrown", me)>>
Thrown == todo # << >> /\ Head(todo).do = "thrown"
Generated == job # NoJob /\ todo = << >>

-----------------------------------------------------------------------------
(* CompilationContext::compile.                                            *)

(* What nobody in this pipeline reads is generated all the same, and before*)
(* the sinks: it may open scopes that they depend on.                      *)
Unread(ops, producers) ==
  {i \in DOMAIN ops : ~IsSink(ops[i]) /\ \A j \in DOMAIN ops : ~Contains(producers[j], i)}
ProducingNoRequest == Unread(subops, job.producers)
Roots_SinksFirst(ops, unread) ==
  SelectSeq([i \in DOMAIN ops |-> i], LAMBDA i : IsSink(ops[i]))
    \o SelectSeq([i \in DOMAIN ops |-> i], LAMBDA i : i \in unread)
Roots(ops, unread) ==
  SelectSeq([i \in DOMAIN ops |-> i], LAMBDA i : i \in unread)
    \o SelectSeq([i \in DOMAIN ops |-> i], LAMBDA i : IsSink(ops[i]))

Compile(j) ==
  LET roots == Roots(j.subops, Unread(j.subops, j.producers))
  IN /\ job' = j
     /\ todo' = Each("open", roots) \o Each("close", roots) \o <<Task("return", 0)>>
     /\ props' = [i \in DOMAIN j.subops |-> [upstream |-> 0, serviced |-> 0, opened |-> 0]]
     /\ computed' = {}
     /\ requests' = [i \in DOMAIN j.subops |-> 0]
     /\ blocks' = << << >> >> /\ curr' = 1
     /\ scopes' = [i \in DOMAIN j.subops |-> NoScope]

Compilable(p) ==
  LET whole == pipelines[p].subops
      rof == ROFPipelines(whole)
  IN {Job("fused", FusedPipeline(whole))}
       \cup (IF Len(rof) = 1 THEN {} ELSE {Job("rof", rof[i]) : i \in DOMAIN rof})
StartCompile ==
  /\ phase = "run" /\ job = NoJob
  /\ \E p \in DOMAIN pipelines : \E j \in Compilable(p) : Compile(j)
  /\ UNCHANGED vars

(* FragmentGenerator::build, before the first query: all that exist.       *)
CompileFragment ==
  /\ phase = "decay" /\ decayed = 0 /\ job = NoJob
  /\ plan \in FirstPlans /\ threads = 1
  /\ \E f \in Fragments : Compile(Job("fragment", f.subops))
  /\ UNCHANGED vars

-----------------------------------------------------------------------------
(* FunctionBuilder: statements are appended to the current block, some to  *)
(* the function's body.                                                    *)

code == <<blocks, curr, scopes>>
EmitTo(b, emitted) == [[b EXCEPT ![1] = @ \o emitted.root] EXCEPT ![curr] = @ \o emitted.here]
Emit(emitted) == blocks' = EmitTo(blocks, emitted) /\ UNCHANGED <<curr, scopes>>

(* buildIf, buildWhile: from now on, statements go into a new block. The   *)
(* statement itself is appended where it began, when it ends.              *)
Begin(emitted) ==
  /\ blocks' = Append(EmitTo(blocks, emitted), << >>)
  /\ scopes' = [scopes EXCEPT ![me] = [body |-> Len(blocks) + 1, original |-> curr]]
  /\ curr' = Len(blocks) + 1
End(last, stmt) ==
  /\ blocks' = [[blocks EXCEPT ![curr] = @ \o last] EXCEPT ![scopes[me].original] = Append(@, stmt)]
  /\ curr' = scopes[me].original
  /\ scopes' = [scopes EXCEPT ![me] = NoScope]

-----------------------------------------------------------------------------
(* Suboperator::open, and those that do it their own way.                  *)

Requests(at, ius) == [k \in DOMAIN ius |-> OnIU("request", at, ius[k])]
Opened == props' = [props EXCEPT ![me].opened = @ + 1]
OpensItself(s) == IsLoop(s) \/ s.sort \in {"ScratchPad", "ColumnFilterScope", "ColumnFilterLogic"}

Open ==
  /\ Call("open") /\ ~OpensItself(mine)
  /\ Then(Requests(me, mine.ins)) /\ Opened
  /\ UNCHANGED <<computed, requests, code>>

(* What is filtered is requested by the scope, in the name of the filter:  *)
(* outside of the if, where its iterator belongs.                          *)
LogicRequests_Itself(s) == s.ins
LogicRequests(s) == <<s.ins[1]>>
OpenFilterLogic ==
  /\ Call("open") /\ mine.sort = "ColumnFilterLogic"
  /\ Then(Requests(me, LogicRequests(mine))) /\ Opened
  /\ UNCHANGED <<computed, requests, code>>
FilterLogics(i) ==
  SelectSeq([k \in DOMAIN subops |-> k], LAMBDA k :
    subops[k].sort = "ColumnFilterLogic" /\ subops[k].ins[1] = subops[i].outs[1])
Filtered(logics) ==
  [k \in DOMAIN logics |-> OnIU("request", logics[k], subops[logics[k]].ins[2])]
ScopeRequests_ConditionFirst(i) ==
  Requests(i, subops[i].ins) \o Filtered(FilterLogics(i))
ScopeRequests(i) == Filtered(FilterLogics(i)) \o Requests(i, subops[i].ins)
OpenFilterScope ==
  /\ Call("open") /\ mine.sort = "ColumnFilterScope"
  /\ IF FilterLogics(me) = << >> THEN Throw ELSE Then(ScopeRequests(me))
  /\ Opened
  /\ UNCHANGED <<computed, requests, code>>

OpenLoop ==
  /\ Call("open") /\ IsLoop(mine)
  /\ Begin(Code(LoopRoot(me, mine), << >>))
  /\ Then(<<Task("notify", me)>>) /\ Opened
  /\ UNCHANGED <<computed, requests>>
OpenScratchPad ==
  /\ Call("open") /\ mine.sort = "ScratchPad"
  /\ Emit(ScratchPadCode(mine))
  /\ Then(<<Task("notify", me)>>) /\ Opened
  /\ UNCHANGED <<computed, requests>>

-----------------------------------------------------------------------------
(* Requests and their answers. A provider remembers one requestor.         *)

CountRequest(provider) == [props EXCEPT ![provider].upstream = @ + 1]
RequestIU ==
  /\ Call("request")
  /\ LET providers == SelectSeq(job.producers[me], LAMBDA p : Contains(subops[p].outs, Head(todo).iu))
         provider == Head(providers)
     IN IF providers = << >> THEN Throw /\ UNCHANGED <<props, requests>>
        ELSE /\ props' = CountRequest(provider)
             /\ requests' = [requests EXCEPT ![provider] = me]
             /\ Then(<<Task(IF provider \in computed THEN "notify" ELSE "open", provider)>>)
  /\ UNCHANGED <<computed, code>>

(* A requestor may generate code for every IU it gets, and does so for all *)
(* of them when it has the last.                                           *)
ConsumesEach(s) ==
  s.sort \in {"TScanIUProvider", "FuseChunkSourceIUProvider", "FuseChunkSink", "CountingSink", "Copy"}
NotifyIUsReady ==
  /\ Call("notify")
  /\ computed' = computed \cup {me}
  /\ LET requestor == requests[me]
     IN IF me \in ProducingNoRequest THEN Then(<< >>) /\ UNCHANGED requests
        ELSE IF requestor = 0 THEN Throw /\ UNCHANGED requests
        ELSE /\ requests' = [requests EXCEPT ![me] = 0]
             /\ Then((IF ConsumesEach(subops[requestor]) THEN <<Task("consume", requestor)>> ELSE << >>)
                        \o <<Task("serviced", requestor)>>)
  /\ UNCHANGED <<props, code>>
ConsumedCode(i, s) ==
  CASE s.sort = "FuseChunkSink" -> FuseChunkSinkCode(i, s)
    [] s.sort = "CountingSink" -> CountingSinkCode(i)
    [] s.sort = "Copy" -> CopyCode(s)
    [] OTHER -> IndexedIUProviderCode(i, s)
Consume ==
  /\ Call("consume")
  /\ Emit(ConsumedCode(me, mine))
  /\ Then(IF IsSink(mine) THEN << >> ELSE <<Task("notify", me)>>)
  /\ UNCHANGED <<props, computed, requests>>

Serviced ==
  /\ Call("serviced")
  /\ props' = [props EXCEPT ![me].serviced = @ + 1]
  /\ Then(IF props'[me].serviced = Len(mine.ins) /\ ~ConsumesEach(mine)
          THEN <<Task("consumeAllChildren", me)>> ELSE << >>)
  /\ UNCHANGED <<computed, requests, code>>

Params == job.kind # "fragment"
CodeOf(i, s) ==
  CASE s.sort = "ColumnFilterLogic" -> ColumnFilterLogicCode(s)
    [] s.sort = "Expression" -> ExpressionCode(s)
    [] s.sort = "RuntimeExpression" -> RuntimeExpressionCode(Params, i, s)
    [] s.sort = "KeyPacker" -> KeyPackerCode(Params, i, s)
    [] s.sort = "KeyUnpacker" -> KeyUnpackerCode(Params, i, s)
    [] s.sort = "Aggregator" -> AggregatorCode(Params, i, s)
    [] s.sort = "AggReader" -> AggReaderCode(Params, i, s)
    [] s.sort = "RuntimeKeyExpression" -> RuntimeKeyExpressionCode(Params, i, s)
    [] IsCall(s) -> RuntimeFunctionCode(i, s)
ConsumeAllChildren ==
  /\ Call("consumeAllChildren") /\ mine.sort # "ColumnFilterScope"
  /\ Emit(CodeOf(me, mine))
  /\ Then(IF IsSink(mine) THEN << >> ELSE <<Task("notify", me)>>)
  /\ UNCHANGED <<props, computed, requests>>
ConsumeCondition ==
  /\ Call("consumeAllChildren") /\ mine.sort = "ColumnFilterScope"
  /\ Begin(Code(<< >>, << >>))
  /\ Then(<<Task("notify", me)>>)
  /\ UNCHANGED <<props, computed, requests>>

-----------------------------------------------------------------------------
(* Closing. What was requested from a suboperator for the last time closes *)
(* in turn, and ends the scope it began.                                   *)

NotifyOpClosed == Each("release", job.producers[me])
Close ==
  /\ Call("close") /\ ~IsLoop(mine) /\ mine.sort # "ColumnFilterScope"
  /\ Then(NotifyOpClosed)
  /\ UNCHANGED <<props, computed, requests, code>>
CloseFilterScope ==
  /\ Call("close") /\ mine.sort = "ColumnFilterScope"
  /\ End(<< >>, If(FilterCondition(mine), scopes[me].body))
  /\ Then(NotifyOpClosed)
  /\ UNCHANGED <<props, computed, requests>>
CloseLoop ==
  /\ Call("close") /\ IsLoop(mine)
  /\ End(<<LoopAdvance(me, mine)>>, While(LoopCondition(me, mine), scopes[me].body))
  /\ Then(<< >>)
  /\ UNCHANGED <<props, computed, requests>>
Release ==
  /\ Call("release")
  /\ props' = [props EXCEPT ![me].upstream = @ - 1]
  /\ Then(IF props'[me].upstream = 0 THEN <<Task("close", me)>> ELSE << >>)
  /\ UNCHANGED <<computed, requests, code>>

ReturnFromFunction ==
  /\ Call("return")
  /\ Emit(Code(<< >>, <<Return(Const(UI1))>>))
  /\ Then(<< >>)
  /\ UNCHANGED <<props, computed, requests>>

Generate ==
  \/ Open \/ OpenFilterLogic \/ OpenFilterScope \/ OpenLoop \/ OpenScratchPad
  \/ RequestIU \/ NotifyIUsReady \/ Consume \/ Serviced
  \/ ConsumeAllChildren \/ ConsumeCondition
  \/ Close \/ CloseFilterScope \/ CloseLoop \/ Release \/ ReturnFromFunction

-----------------------------------------------------------------------------
(* Properties.                                                             *)

(* Types: blocks and positions that are named exist, and calls are known.  *)
CompileTypeOK ==
  /\ \A k \in DOMAIN todo : todo[k].at \in Positions \cup {0}
  /\ DOMAIN props = Positions /\ computed \subseteq Positions
  /\ \A i \in Positions :
       /\ requests[i] \in Positions \cup {0}
       /\ props[i] \in [upstream : Nat, serviced : Nat, opened : Nat]
       /\ scopes[i] = NoScope \/ {scopes[i].body, scopes[i].original} \subseteq DOMAIN blocks
  /\ job # NoJob => curr \in DOMAIN blocks

(* However the suboperators' calls nest, each of them is opened and does   *)
(* its work once, every request is answered, and when the function returns *)
(* every loop and filter has ended, in the function's body. All the while  *)
(* calls, requests and blocks are what they are read as.                   *)
GeneratedOnce ==
  /\ CompileTypeOK /\ ~Thrown
  /\ \A i \in Positions : props[i].opened <= 1 /\ props[i].serviced <= Len(subops[i].ins)
  /\ Generated =>
       /\ curr = 1 /\ computed = {i \in Positions : ~IsSink(subops[i])}
       /\ \A i \in Positions :
            /\ requests[i] = 0 /\ scopes[i] = NoScope
            /\ props[i] = [upstream |-> 0, serviced |-> Len(subops[i].ins), opened |-> 1]

(* In the order it is printed, the function declares every variable once,  *)
(* in a block around all of its uses, and assigns it before it is read. A  *)
(* byte array is filled before it is read: CompilationContext::compile     *)
(* opens what nobody reads before the sinks for this.                      *)
Printed == Lines(blocks, 1, << >>)
Encloses(d, k) == IsPrefix(d.scope, k.scope)
Target(line) ==
  IF line.stmt.code = "assign" THEN line.stmt.exprs[1] ELSE VarRef(NoDeclaration)
Values(line) == IF line.stmt.code = "assign" THEN Tail(line.stmt.exprs) ELSE line.stmt.exprs
VarsOf(line) ==
  LET target == Target(line)
      inTarget == VarsIn(target) \ {NoVar}
  IN [declares |-> IF line.stmt.code = "declare" THEN {line.stmt.var.id} ELSE {},
      assigns |-> IF target.code = "VarRef" THEN inTarget ELSE {},
      fills |-> IF target.code = "Deref" THEN inTarget ELSE {},
      reads |-> UNION {VarsIn(e) : e \in ToSet(Values(line))} \ {GlobalState.id}]
ScopesSoundIn(text, v) ==
  LET Before(k) == {d \in 1..(k - 1) : Encloses(text[d], text[k])}
  IN \A k \in DOMAIN text :
       LET declared == UNION {v[d].declares : d \in Before(k)}
           assigned == UNION {v[d].assigns : d \in Before(k)}
           filled == UNION {v[f].fills : f \in DOMAIN text \ (Before(k) \cup {k})}
       IN /\ v[k].declares \cap UNION {v[d].declares : d \in 1..(k - 1)} = {}
          /\ v[k].reads \cup v[k].assigns \cup v[k].fills \subseteq declared
          /\ v[k].reads \cup v[k].fills \subseteq assigned
          /\ v[k].reads \cap filled = {}
VariablesOf(text) == [k \in DOMAIN text |-> VarsOf(text[k])]
ScopesSound == Generated => ScopesSoundIn(Printed, VariablesOf(Printed))

(* The C compiler, not the IR, is the first to look at types. It would     *)
(* accept every expression as it is printed, and what it accepts is read   *)
(* as what it was written as: the state of every suboperator, too.         *)
Declared(text) == {line.stmt.var : line \in {l \in ToSet(text) : l.stmt.code = "declare"}} \cup {GlobalState}
StateSound(e) ==
  \A w \in ToSet(Within(e)) : w.at # 0 => e.kids[1].kids[1].type = Ptr(<<StateOf(subops[w.at])>>)
WellTypedIn(text, declared) ==
  \A line \in ToSet(text) :
    /\ StmtSound(line.stmt)
    /\ \A e \in ToSet(ExprsOf(line)) :
         /\ ExprSound(e)
         /\ e.code = "VarRef" => [id |-> e.var, type |-> e.type] \in declared
         /\ e.code = "StructAccess" => StateSound(e)
WellTyped == Generated => WellTypedIn(Printed, Declared(Printed))

(* All columns that a pipeline leaves are as long as each other: its sinks *)
(* write in one block. And no row skips the advance of a byte array's      *)
(* iterator, or of the loop: these are in the loop's body, not in an if.   *)
Parts(line) == {w.part : w \in VarsOf(line).assigns}
SinksInStepIn(text) ==
  LET Blocks(lines) == {text[k].scope : k \in lines}
      steps == {k \in DOMAIN text : text[k].stmt.code = "assign"
                  /\ ToSet(text[k].scope) # {1} /\ Parts(text[k]) = {"iterator"}}
      counts == {k \in DOMAIN text : \E w \in VarsOf(text[k]).fills : w.part = "size"}
      loops == {text[k].stmt.body : k \in {l \in DOMAIN text : text[l].stmt.code = "while"}}
      ofSinks == {k \in steps : \E w \in VarsOf(text[k]).assigns : IsSink(subops[w.at])}
  IN /\ Cardinality(Blocks(counts \cup ofSinks)) <= 1
     /\ Cardinality(loops) = 1
     /\ \A k \in steps \ ofSinks : Last(text[k].scope) \in loops
SinksInStep == Generated => SinksInStepIn(Printed)

(* Every suboperator that is interpreted finds exactly one fragment by its *)
(* id, and the pipeline it is called for is one that can run and looks like*)
(* the one it was made from: InterpretedRunner checks that there is one,   *)
(* and Pipeline::repipe orders columns "to get consistent operators".      *)
FragmentsMatch ==
  phase = "run" /\ job = NoJob =>
    \A p \in DOMAIN pipelines : \A k \in Interpreted(pipelines[p].subops) :
      LET own == InterpretedPipeline(pipelines[p].subops, k)
          fragments == FragmentsWithId(Id(pipelines[p].subops[k]))
      IN Runnable(own) /\ Cardinality(fragments) = 1 /\ \A f \in fragments : Matches(f, own)
=============================================================================
