----------------------------- MODULE Completion -----------------------------
(***************************************************************************)
(* CollectCompletion (chat_types.go): a chat completion rebuilt from the   *)
(* chunks of its stream, which carry pieces of several choices and of      *)
(* several tool calls in any interleaving.  A caller may collect again as  *)
(* more chunks arrive.                                                     *)
(*                                                                         *)
(* Texts are sequences of pieces; a piece is the number of its chunk.  Two *)
(* extra fields stand for all: `reasoning`, a string of the message, and   *)
(* `logprobs`, a map of the choice that holds a list.  A map is shared: the*)
(* first one met becomes the one that later ones are merged into, so       *)
(* collecting writes to the caller's chunks.  The fields of a whole chunk  *)
(* and the trustedrouter metadata of a completion are left out, so chunks  *)
(* are the deltas of their choices, one after the other, in the order in   *)
(* which the two loops of CollectCompletion meet them.                     *)
(***************************************************************************)
EXTENDS Integers, SequencesExt

CONSTANTS
    ChoiceIndexes, ToolIndexes,
    MaxDeltas,      \* bound on the deltas of a stream
    MaxCollects     \* bound on the collections of one caller

ASSUME CompletionAssumption ==
    /\ 0 \in ChoiceIndexes /\ 0 \in ToolIndexes
    /\ MaxDeltas \in Nat /\ MaxCollects \in Nat

VARIABLES
    deltas,     \* the choice deltas of the caller's chunks
    sent,       \* history: the deltas as they were decoded
    collects,   \* how often the caller has collected
    completion  \* what the last collection returned, and of how many deltas

completionVars == <<deltas, sent, collects, completion>>

NoCompletion == [count |-> -1]

(* What a chunk may hold; "" is a field that is absent, or empty where the *)
(* code ignores an empty one.  A role that is present counts even when it  *)
(* is empty: "blank".  toolCallIndex reads a missing index as 0.           *)
ToolCalls == [index : ToolIndexes, id : STRING, args : Seq(Nat)]

ChoiceDeltas ==
    [index : ChoiceIndexes, role : STRING, text : Seq(Nat), tools : Seq(ToolCalls),
     finish : STRING, reasoning : Seq(Nat), logprobs : Seq(Nat)]

(* A delta without content.                                                *)
Delta(index) ==
    [index |-> index, role |-> "", text |-> << >>, tools |-> << >>, finish |-> "",
     reasoning |-> << >>, logprobs |-> << >>]

-----------------------------------------------------------------------------
(* completionChoiceState; a tool call that is not open has no slot.        *)
NoSlot == [open |-> FALSE, id |-> "", args |-> << >>]

FreshChoice ==
    [used |-> FALSE, role |-> "assistant", text |-> << >>, finish |-> "stop",
     tools |-> [i \in ToolIndexes |-> NoSlot], reasoning |-> << >>, logprobs |-> << >>]

LastSaid(said, before) == IF said = "" THEN before ELSE said

(* A mutant: arguments without an id go to the highest tool call that is   *)
(* open.                                                                   *)
mergeToolByOrder(tools, call) ==
    LET open == {i \in ToolIndexes : tools[i].open}
        at   == IF call.id = "" /\ open # {} THEN Max(open) ELSE call.index
    IN  [tools EXCEPT ![at] = [open |-> TRUE, id |-> call.id, args |-> @.args \o call.args]]

(* The slot of a tool call is chosen by its index.                         *)
mergeTool(tools, call) ==
    [tools EXCEPT ![call.index] =
        [open |-> TRUE, id |-> LastSaid(call.id, @.id), args |-> @.args \o call.args]]

mergeTools(tools, calls) ==
    LET after[k \in 0..Len(calls)] ==
            IF k = 0 THEN tools ELSE mergeTool(after[k - 1], calls[k])
    IN  after[Len(calls)]

(* mergeCompletionField on strings and on lists is concatenation.          *)
absorb(state, delta) ==
    [used      |-> TRUE,
     role      |-> LastSaid(delta.role, state.role),
     text      |-> state.text \o delta.text,
     finish    |-> LastSaid(delta.finish, state.finish),
     tools     |-> mergeTools(state.tools, delta.tools),
     reasoning |-> state.reasoning \o delta.reasoning,
     logprobs  |-> state.logprobs \o delta.logprobs]

absorbNext(states, delta) == [states EXCEPT ![delta.index] = absorb(@, delta)]

absorbAll(received) ==
    LET after[n \in 0..Len(received)] ==
            IF n = 0 THEN [x \in ChoiceIndexes |-> FreshChoice]
            ELSE absorbNext(after[n - 1], received[n])
    IN  after[Len(received)]

ToolsOf(state) == {i \in ToolIndexes : state.tools[i].open}

(* The content is null only next to tool calls.                            *)
choiceOf(state) ==
    [role |-> state.role, text |-> state.text, null |-> state.text = << >> /\ ToolsOf(state) # {},
     finish |-> state.finish, tools |-> [i \in ToolsOf(state) |-> state.tools[i]],
     reasoning |-> state.reasoning, logprobs |-> state.logprobs]

(* Without any choice there is an empty one.                               *)
CollectCompletion(received) ==
    LET states == absorbAll(received)
        used   == {x \in ChoiceIndexes : states[x].used}
    IN  [count |-> Len(received),
         choices |-> [x \in (IF used = {} THEN {0} ELSE used) |-> choiceOf(states[x])]]

(* What collecting leaves in the chunks: of each choice, the first map of  *)
(* logprobs holds them all.                                                *)
Carriers(received, x) ==
    {i \in DOMAIN received : received[i].index = x /\ received[i].logprobs # << >>}

mergedInto(received, i) ==
    LET delta == received[i]
        own   == Carriers(received, delta.index)
    IN  IF own # {} /\ i = Min(own)
        THEN [delta EXCEPT !.logprobs = CollectCompletion(received).choices[delta.index].logprobs]
        ELSE delta

-----------------------------------------------------------------------------
CompletionInit ==
    /\ deltas = << >> /\ sent = << >>
    /\ collects = 0 /\ completion = NoCompletion

(* A chunk arrives: the deltas of its choices.                             *)
Receive(chunk) ==
    /\ Len(deltas) + Len(chunk) <= MaxDeltas
    /\ deltas' = deltas \o chunk
    /\ sent' = sent \o chunk
    /\ UNCHANGED <<collects, completion>>

Collect ==
    /\ collects < MaxCollects
    /\ completion' = CollectCompletion(deltas)
    /\ deltas' = [i \in DOMAIN deltas |-> mergedInto(deltas, i)]
    /\ collects' = collects + 1
    /\ UNCHANGED sent

(* The caller of any stream.                                               *)
CompletionNext == Collect \/ \E chunk \in Seq(ChoiceDeltas) : Receive(chunk)

CompletionSpec == CompletionInit /\ [][CompletionNext]_completionVars

-----------------------------------------------------------------------------
(* The entries of `part` at the places in `own`, joined in order.          *)
Pieces(part, own) == FlattenSeq([i \in DOMAIN part |-> IF i \in own THEN part[i] ELSE << >>])

(* The last that was said at these places, if anything was.                *)
LastOf(said, own, default) ==
    LET loud == {i \in own : said[i] # ""}
    IN  IF loud = {} THEN default ELSE said[Max(loud)]

(* The arguments of tool call t in one delta.                              *)
ArgsOf(delta, t) ==
    Pieces([k \in DOMAIN delta.tools |-> delta.tools[k].args],
           {k \in DOMAIN delta.tools : delta.tools[k].index = t})

(* What an earlier collection leaves of the pieces: the first that is not  *)
(* empty comes first, the others come last, in order, and between them     *)
(* some of what the others hold is repeated.                               *)
RepeatsPieces(list, part, own) ==
    LET first == Min({i \in own : part[i] # << >>})
        rest  == Pieces(part, own \ {first})
        again == SubSeq(list, Len(part[first]) + 1, Len(list) - Len(rest))
    IN  IF \A i \in own : part[i] = << >> THEN list = << >>
        ELSE list = part[first] \o again \o rest /\ ToSet(again) \subseteq ToSet(rest)

(* `choice` is choice x of the deltas `told`; its nested lists exactly, or *)
(* with repetitions.                                                       *)
IsChoiceOf(choice, told, x, exact) ==
    LET own    == {i \in DOMAIN told : told[i].index = x}
        lists  == [i \in DOMAIN told |-> told[i].logprobs]
        called == UNION {{told[i].tools[k].index : k \in DOMAIN told[i].tools} : i \in own}
    IN  /\ choice.text = Pieces([i \in DOMAIN told |-> told[i].text], own)
        /\ choice.reasoning = Pieces([i \in DOMAIN told |-> told[i].reasoning], own)
        /\ choice.role = LastOf([i \in DOMAIN told |-> told[i].role], own, "assistant")
        /\ choice.finish = LastOf([i \in DOMAIN told |-> told[i].finish], own, "stop")
        /\ DOMAIN choice.tools = called
        /\ \A t \in called :
              choice.tools[t].args = Pieces([i \in DOMAIN told |-> ArgsOf(told[i], t)], own)
        /\ IF exact THEN choice.logprobs = Pieces(lists, own)
           ELSE RepeatsPieces(choice.logprobs, lists, own)
        /\ choice.null <=> choice.text = << >> /\ called # {}

(* The texts, the tool calls, the role and the finish reason that a        *)
(* collection gives a choice are those sent to it and nothing else, in the *)
(* order sent, however its deltas and those of its tool calls are          *)
(* interleaved with others and however often the caller has collected.     *)
(* Nested lists are what was sent on the first collection only.  After it  *)
(* the code repeats entries (a map of the caller's chunks is merged into); *)
(* then still nothing is lost, foreign or out of order, and entries of the *)
(* later chunks alone are repeated, after the first one's.                 *)
CollectedIsStreamed ==
    completion # NoCompletion =>
        LET told == SubSeq(sent, 1, completion.count)
            got  == completion.choices
        IN  /\ DOMAIN got = IF told = << >> THEN {0} ELSE {told[i].index : i \in DOMAIN told}
            /\ \A x \in DOMAIN got : IsChoiceOf(got[x], told, x, collects = 1)
=============================================================================
