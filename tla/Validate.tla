------------------------------- MODULE Validate -------------------------------
(***************************************************************************)
(* Structural validation of RevIR (ir/validate.py): one definition of each *)
(* value, dominating every use of it, phis that cover the predecessors of  *)
(* their block, the widths each operation demands, and registers aligned   *)
(* with the values calls and returns carry.  `widths` gives the width of   *)
(* every register of the module.                                           *)
(***************************************************************************)
EXTENDS Ir

\* Where a value is defined: <<block, position>>, inputs before every block and
\* phis before the first operation of theirs.
Definitions(f) ==
    {<<v, 0, 0>> : v \in ToSet(InputValues(f))} \cup
    UNION {{<<f.blocks[b].phis[k].out, b, 0>> : k \in DOMAIN f.blocks[b].phis} \cup
           (UNION {{<<v, b, k>> : v \in ToSet(f.blocks[b].ops[k].out)} : k \in DOMAIN f.blocks[b].ops}) \cup
           {<<v, b, Len(f.blocks[b].ops) + 1>> : v \in ToSet(Outputs(f.blocks[b].term.call))}
             : b \in DOMAIN f.blocks}

SingleDefinitions(f) ==
    LET defined == Defines(f) IN
    \A i, j \in DOMAIN defined : defined[i].n = defined[j].n => i = j

PhiUses(f, b) ==
    UNION {{<<i[2], i[1], Len(f.blocks[i[1]].ops) + 2>> : i \in ToSet(f.blocks[b].phis[k].incoming)}
             : k \in DOMAIN f.blocks[b].phis}
OperationUses(f, b) ==
    UNION {{<<o, b, k>> : o \in ToSet(f.blocks[b].ops[k].ins)} : k \in DOMAIN f.blocks[b].ops}
\* What a tail call returns is used after the call has defined its results.
TerminatorUses(f, b) ==
    LET t == f.blocks[b].term
        end == Len(f.blocks[b].ops) + 1 IN
    {<<o, b, end>> : o \in ToSet(t.ins) \cup UNION {ToSet(c.ins) : c \in ToSet(t.call)}} \cup
    {<<o, b, IF t.op = "tailcall" THEN end + 1 ELSE end>> : o \in ToSet(t.values)}

Uses(f, b) == PhiUses(f, b) \cup OperationUses(f, b) \cup TerminatorUses(f, b)

DefinitionsDominate(f) ==
    LET succ == Succ(f)
        defined == Definitions(f) IN
    \A b \in ReachableBlocks(succ) : \A use \in Uses(f, b) :
        use[1].var => \E d \in defined :
            /\ d[1] = use[1]
            /\ \/ d[2] = 0
               \/ d[2] = use[2] /\ d[3] < use[3]
               \/ d[2] # use[2] /\ DominatedBy(succ, d[2], use[2])

PhisCover(f) ==
    LET succ == Succ(f) IN
    \A b \in ReachableBlocks(succ) : \A phi \in ToSet(f.blocks[b].phis) :
        /\ {i[1] : i \in ToSet(phi.incoming)} = Preds(succ, b)
        /\ \A i \in ToSet(phi.incoming) : i[2].w = phi.out.w

\* The widths of a call's registers and of the values that stand for them.
Aligned(registers, values, widths) ==
    /\ Len(registers) = Len(values)
    /\ \A k \in DOMAIN registers : widths[registers[k]] = values[k].w

WidthsRight(o, widths) ==
    LET w == [k \in DOMAIN o.ins |-> o.ins[k].w]
        wide == [k \in DOMAIN o.out |-> o.out[k].w] IN
    CASE o.op \in Shifts -> wide[1] = w[1]
      [] o.op \in Comparisons -> w[1] = w[2] /\ wide[1] = Byte
      [] o.op \in Booleans -> w[1] = Byte /\ w[2] = Byte /\ wide[1] = Byte
      [] o.op \in Arithmetic \cup Division -> w[1] = w[2] /\ wide[1] = w[1]
      [] o.op \in {"zext", "sext"} -> wide[1] > w[1]
      [] o.op = "trunc" -> wide[1] < w[1]
      [] o.op = "bnot" -> wide[1] = Byte /\ w[1] = Byte
      [] o.op \in {"copy", "not", "neg"} -> wide[1] = w[1]
      [] o.op = "subpiece" -> o.low >= 0 /\ o.low + wide[1] <= w[1]
      [] o.op = "piece" -> wide[1] = w[1] + w[2]
      [] o.op \in {"load", "store"} -> w[1] = PointerWidth
      [] o.op = "call" -> /\ Aligned(o.args, Arguments(o), widths)
                          /\ Aligned(o.results, o.out, widths)
                          /\ o.target.kind = "indirect" => w[1] = PointerWidth
      [] OTHER -> TRUE

Widths(f, widths) ==
    /\ \A k \in DOMAIN f.inputs : f.inputs[k].value.w = widths[f.inputs[k].reg]
    /\ \A b \in ReachableBlocks(Succ(f)) :
          /\ \A o \in ToSet(f.blocks[b].ops \o f.blocks[b].term.call) : WidthsRight(o, widths)
          /\ f.blocks[b].term.op = "return" => Len(f.blocks[b].term.values) = Len(f.outputs)

\* validate_function finds nothing to complain about.
Valid(f, widths) ==
    SingleDefinitions(f) /\ DefinitionsDominate(f) /\ PhisCover(f) /\ Widths(f, widths)
===============================================================================
