---------------------------- MODULE ShapeRules ----------------------------
(***************************************************************************)
(* The sizes that the emitters of src/codegen/mlir_gen.cpp compute, for a  *)
(* chain of nodes that each take the result of the one before.             *)
(*                                                                         *)
(* A tensor has a type, known at compile time, in which the number         *)
(* Dynamic (ShapedType::kDynamic, the least int64) stands for an unknown   *)
(* size, and a shape, what the compiled code makes of it when it runs.     *)
(* MLIR checks types (external); ONNX says which shapes are meant.         *)
(* Elements, alpha and epsilon change no size and are left out.            *)
(*                                                                         *)
(* A definition called ..._bug is a slip one could make in the definition  *)
(* it precedes; it is used nowhere and serves to see a property fail.      *)
(***************************************************************************)
EXTENDS Integers, SequencesExt

CONSTANTS
    Limit,       \* int64_t goes from -Limit to Limit - 1 (Limit is 2^63 in the program)
    Starts,      \* the chain's input: [dims, shape]: declared (0: unknown) and actual
    Weights,     \* shapes of initializers
    Kernels,     \* kernel_shape of MaxPool
    Windows,     \* [strides, dilations, pads]
    Targets,     \* contents of Reshape's second input
    Axes,        \* axis of Softmax and Flatten
    MaxNodes     \* bound: length of the chain

ASSUME LimitAssumption == Limit \in Nat /\ Limit > 1 /\ MaxNodes \in Nat

Lists(size) == {list \in Seq(Int) : \A i \in DOMAIN list : list[i] >= size}

\* A size that is declared is the actual one; a size that is not may be any.
ASSUME StartAssumption ==
    \A start \in Starts :
        /\ start.dims \in Seq(Int) /\ start.shape \in Lists(0)
        /\ Len(start.dims) = Len(start.shape)
        /\ \A i \in DOMAIN start.dims : start.dims[i] > 0 => start.shape[i] = start.dims[i]

\* An initializer without elements has no bytes and is refused before any node is emitted.
ASSUME WeightAssumption == \A w \in Weights : w \in Lists(1)

\* What ONNX allows; the emitters look at none of it.
ASSUME AttributeAssumption ==
    /\ \A kernel \in Kernels : kernel \in Lists(1) /\ Len(kernel) = 2
    /\ \A win \in Windows :
          /\ win.strides \in Lists(1) /\ win.dilations \in Lists(1) /\ win.pads \in Lists(0)
          /\ Len(win.strides) = 2 /\ Len(win.dilations) = 2 /\ Len(win.pads) = 4
    /\ \A target \in Targets : target \in Lists(-1)
    /\ Axes \subseteq Int

VARIABLES
    x,           \* [type, shape]: the tensor at the end of the chain
    onnx,        \* its shape according to ONNX, or Invalid
    outcome,     \* "ok" so far; "refused" by an exception or by MLIR's verifier;
                 \* "overflow" of a size that is computed; "ill-formed": no such type;
                 \* "wrong": the compiled code leaves a tensor or runs with a size that
                 \* is not the actual one; "returned"
    static,      \* history: no size was unknown at the start
    within,      \* history: every node was one the compiler means to support
    empty,       \* history: some tensor of the chain has no elements
    count        \* nodes emitted

vars == <<x, onnx, outcome, static, within, empty, count>>

-----------------------------------------------------------------------------
(* Sizes *)

Dynamic == -Limit
Invalid == <<-1>>

NoOverflow(n)    == Dynamic <= n /\ n < Limit
Static(dims)     == \A i \in DOMAIN dims : dims[i] # Dynamic
WellFormed(dims) == \A i \in DOMAIN dims : dims[i] >= 0 \/ dims[i] = Dynamic

\* Products(dims)[k] is that of the first k sizes.
Products(dims) ==
    LET upTo[k \in 0 .. Len(dims)] == IF k = 0 THEN 1 ELSE upTo[k - 1] * dims[k] IN upTo
NumElements(dims) == Products(dims)[Len(dims)]
Multiplies(dims)  == \A k \in DOMAIN dims : NoOverflow(Products(dims)[k])

\* C++ division, for a positive divisor.
Quotient(a, b) == IF a >= 0 THEN a \div b ELSE -((-a) \div b)

value_to_tensor_type_bug(dims) == [i \in DOMAIN dims |-> IF dims[i] > 1 THEN dims[i] ELSE Dynamic]
value_to_tensor_type(dims) == [i \in DOMAIN dims |-> IF dims[i] > 0 THEN dims[i] ELSE Dynamic]

\* make_empty_like(t) has the sizes of t, also unknown ones, and needs no operator;
\* make_zero_tensor and make_neg_inf_tensor are constants, which must have a static type.
Constant(dims) == [type |-> dims, shape |-> dims]

-----------------------------------------------------------------------------
(* Linalg operations and their verifier (MLIR).  An index of an operand is *)
(* a loop, or loop * by + plus * step in a sliding window.                 *)

Loop(l) == [loop |-> l, by |-> 1, plus |-> 0, step |-> 0]
Slide(l, by, plus, step) == [loop |-> l, by |-> by, plus |-> plus, step |-> step]
IsLoop(index) == index.plus = 0
Identity(rank) == [i \in 1 .. rank |-> Loop(i)]

\* The places of indices: <<operand, dimension>>.
Slots(maps) == UNION {{p} \X DOMAIN maps[p] : p \in DOMAIN maps}
IndexAt(maps, s) == maps[s[1]][s[2]]
Loops(maps) == {IndexAt(maps, s).loop : s \in Slots(maps)}
                   \cup ({IndexAt(maps, s).plus : s \in Slots(maps)} \ {0})

\* The range of a loop is the size of the first dimension that it indexes alone.
First(maps, l) == CHOOSE s \in Slots(maps) :
    /\ IndexAt(maps, s) = Loop(l)
    /\ \A t \in Slots(maps) :
          IndexAt(maps, t) = Loop(l) => s[1] < t[1] \/ (s[1] = t[1] /\ s[2] <= t[2])
Ranges(dims, maps) ==
    [l \in Loops(maps) |-> LET s == First(maps, l) IN dims[s[1]][s[2]]]

LastIndex(index, range) == (range[index.loop] - 1) * index.by
    + (IF IsLoop(index) THEN 0 ELSE (range[index.plus] - 1) * index.step)

\* A dimension ends where the loop that indexes it alone does, or after the last window.
Matches(size, index, range) ==
    IF IsLoop(index) THEN size = range[index.loop] ELSE LastIndex(index, range) \in 0 .. size - 1

\* What MLIR looks at: one unknown range turns the check off, and unknown or empty
\* dimensions are passed over.
Verified(dims, maps) ==
    LET range == Ranges(dims, maps)
    IN  (\A l \in DOMAIN range : range[l] # Dynamic) =>
            \A p \in DOMAIN maps : \A i \in DOMAIN maps[p] :
                dims[p][i] \in {Dynamic, 0} \/ Matches(dims[p][i], maps[p][i], range)

\* What must hold when the loops run: sizes agree, and windows stay inside unless there
\* is no iteration at all.
Right(dims, maps) ==
    LET range == Ranges(dims, maps)
    IN  \A p \in DOMAIN maps : \A i \in DOMAIN maps[p] :
            \/ Matches(dims[p][i], maps[p][i], range)
            \/ ~IsLoop(maps[p][i]) /\ \E l \in DOMAIN range : range[l] = 0

\* An operation: whether MLIR takes its types, and whether it runs as it should.
Op(verified, right) == [verified |-> verified, right |-> right]
Linalg(operands, maps) ==
    LET types   == [p \in DOMAIN operands |-> operands[p].type]
        shapes  == [p \in DOMAIN operands |-> operands[p].shape]
    IN  IF \E p \in DOMAIN maps : Len(types[p]) # Len(maps[p]) THEN Op(FALSE, FALSE)
        ELSE Op(Verified(types, maps), Right(shapes, maps))

-----------------------------------------------------------------------------
(* The emitters: the operations of a node and its result *)

\* Whether no size overflows and the types exist; operations; result.
Emission(fits, defined, ops, result) ==
    [fits |-> fits, defined |-> defined, ops |-> ops, result |-> result]
Throw == Op(FALSE, FALSE)

\* Add and Mul: the output slot is like the left operand; nothing is broadcast.
emit_elementwise(lhs, rhs) ==
    LET id == Identity(Len(lhs.type))
    IN  Emission(TRUE, TRUE, {Linalg(<<lhs, rhs, lhs>>, <<id, id, id>>)}, lhs)

emit_relu(t) == LET id == Identity(Len(t.type))
                IN  Emission(TRUE, TRUE, {Linalg(<<t, t>>, <<id, id>>)}, t)

scale_tensor(t) == LET id == Identity(Len(t.type)) IN Linalg(<<t, t>>, <<id, id>>)

\* linalg.matmul and its transposed variants; trans holds the operands transposed.
Matmul(a, b, out, trans) ==
    LET m == Loop(1)  n == Loop(2)  k == Loop(3)
    IN  Linalg(<<a, b, out>>, <<IF "A" \in trans THEN <<k, m>> ELSE <<m, k>>,
                                IF "B" \in trans THEN <<n, k>> ELSE <<k, n>>, <<m, n>>>>)

emit_matmul(a, b) ==
    LET out == Constant(<<a.type[1], b.type[2]>>)
    IN  Emission(TRUE, Static(out.type), {Matmul(a, b, out, {})}, out)

\* result[.., c, ..] + bias[c], c being dimension 2 of the result.
AddBias(result, bias) ==
    LET id == Identity(Len(result.type))
    IN  Linalg(<<result, bias, result>>, <<id, <<Loop(2)>>, id>>)

emit_gemm(a, b, biases, trans, beta) ==
    LET out == Constant(<<IF "A" \in trans THEN a.type[2] ELSE a.type[1],
                          IF "B" \in trans THEN b.type[1] ELSE b.type[2]>>)
    IN  Emission(TRUE, Static(out.type),
                 {IF trans = {"A", "B"} THEN Throw ELSE Matmul(a, b, out, trans), scale_tensor(out)}
                     \cup {AddBias(out, c) : c \in IF beta = 0 THEN {} ELSE biases}
                     \cup {scale_tensor(c) : c \in IF beta \in {0, 1} THEN {} ELSE biases},
                 out)

\* One spatial size of Conv and MaxPool.
Extent(size, low, high, kernel, dilation) == size + low + high - dilation * (kernel - 1) - 1
OutSize_bug(extent, stride) == Quotient(extent + stride - 1, stride) + 1   \* rounded up
OutSize(extent, stride) == Quotient(extent, stride) + 1

Extents_bug(dims, kernel, win) ==      \* pads taken for [top, bottom, left, right]
    [i \in 1 .. 2 |-> Extent(dims[i + 2], win.pads[2 * i - 1], win.pads[2 * i], kernel[i], win.dilations[i])]
Extents(dims, kernel, win) ==
    [i \in 1 .. 2 |-> Extent(dims[i + 2], win.pads[i], win.pads[i + 2], kernel[i], win.dilations[i])]

\* tensor.pad, left out without pads: [top, left, bottom, right].
Padded(dims, pads) == <<dims[1], dims[2], dims[3] + pads[1] + pads[3], dims[4] + pads[2] + pads[4]>>
Pad(t, pads) == IF \A i \in DOMAIN pads : pads[i] = 0 THEN t
                ELSE [type |-> Padded(t.type, pads), shape |-> Padded(t.shape, pads)]

\* What Conv and MaxPool share: sizes, padding, one sliding operation.
Sliding(t, kernel, channels, win, Operation(_, _)) ==
    LET extents == Extents(t.type, kernel, win)
        padded  == Pad(t, win.pads)
        out     == Constant(<<t.type[1], channels, OutSize(extents[1], win.strides[1]),
                                                   OutSize(extents[2], win.strides[2])>>)
    IN  Emission(\A i \in 1 .. 2 : NoOverflow(extents[i]) /\ NoOverflow(padded.shape[i + 2]),
                 WellFormed(padded.type) /\ WellFormed(out.type) /\ Static(out.type),
                 {Op(Len(t.type) = 4, TRUE), Operation(padded, out)}, out)

\* linalg.conv_2d_nchw_fchw: loops n, f, oh, ow, c, kh, kw.
emit_conv(t, filter, biases, win) ==
    LET Convolution(padded, out) == Linalg(<<padded, filter, out>>,
            <<<<Loop(1), Loop(5), Slide(3, win.strides[1], 6, win.dilations[1]),
                                  Slide(4, win.strides[2], 7, win.dilations[2])>>,
              <<Loop(2), Loop(5), Loop(6), Loop(7)>>, Identity(4)>>)
        conv == Sliding(t, <<filter.type[3], filter.type[4]>>, filter.type[1], win, Convolution)
    IN  [conv EXCEPT !.ops = @ \cup {AddBias(conv.result, c) : c \in biases}]

\* linalg.pooling_nchw_max: loops n, c, oh, ow, kh, kw; the kernel is there for its shape.
emit_maxpool(t, kernel, win) ==
    LET Pooling(padded, out) == Linalg(<<padded, Constant(kernel), out>>,
            <<<<Loop(1), Loop(2), Slide(3, win.strides[1], 5, win.dilations[1]),
                                  Slide(4, win.strides[2], 6, win.dilations[2])>>,
              <<Loop(5), Loop(6)>>, Identity(4)>>)
    IN  Sliding(t, kernel, t.type[2], win, Pooling)

\* The sum over H and W is divided by a constant, and expanded to [N, C, 1, 1].
emit_global_avg_pool(t) ==
    LET sum     == Constant(<<t.type[1], t.type[2]>>)
        divisor == t.type[3] * t.type[4]
    IN  Emission(NoOverflow(divisor), Static(sum.type),
                 {Linalg(<<t, sum>>, <<Identity(4), <<Loop(1), Loop(2)>>>>), scale_tensor(sum),
                  Op(TRUE, divisor = t.shape[3] * t.shape[4])},
                 Constant(<<t.type[1], t.type[2], 1, 1>>))

emit_batchnorm(t, params) ==
    LET perChannel == <<Loop(2)>>
    IN  Emission(TRUE, TRUE, {Linalg(<<t>> \o params \o <<t>>,
                               <<Identity(4), perChannel, perChannel, perChannel, perChannel,
                                 Identity(4)>>)}, t)

\* Two reductions to a tensor without the axis, two operations that broadcast it back.
emit_softmax(t, axis) ==
    LET at      == IF axis < 0 THEN axis + Len(t.type) + 1 ELSE axis + 1
        id      == Identity(Len(t.type))
        dropped == Constant(RemoveAt(t.type, at))
        map     == RemoveAt(id, at)
    IN  IF at \notin DOMAIN t.type THEN Emission(TRUE, TRUE, {Throw}, t)
        ELSE Emission(TRUE, Static(dropped.type),
                      {Linalg(<<t, dropped>>, <<id, map>>), Linalg(<<t, dropped, t>>, <<id, map, id>>)}, t)

\* tensor.reshape: numbers of elements are compared if both types are static; the sizes
\* at run time are those of the constant handed to it.
TensorReshape(t, dims, shape) ==
    Op(Static(t.type) /\ Static(dims) => NumElements(t.type) = NumElements(dims),
       dims = shape /\ NumElements(t.shape) = NumElements(dims))

\* 0 and -1 are sizes like others.
emit_reshape(t, target) ==
    Emission(TRUE, WellFormed(target), {TensorReshape(t, target, target)}, Constant(target))

\* For axis (rank added if negative) from 0 to rank; MlirGen has the others.
emit_flatten(t, at) ==
    LET Halves(dims) == <<SubSeq(dims, 1, at), SubSeq(dims, at + 1, Len(dims))>>
        Flat(dims)   == [h \in 1 .. 2 |-> NumElements(Halves(dims)[h])]
    IN  Emission(\A h \in 1 .. 2 : Multiplies(Halves(t.type)[h]), WellFormed(Flat(t.type)),
                 {TensorReshape(t, Flat(t.type), Flat(t.shape))},
                 [type |-> Flat(t.type), shape |-> Flat(t.shape)])

-----------------------------------------------------------------------------
(* ONNX (external): the shape of a result, or Invalid *)

Broadcast(s, t) ==
    LET rank == IF Len(s) > Len(t) THEN Len(s) ELSE Len(t)
        Long(u) == [i \in 1 .. rank - Len(u) |-> 1] \o u
    IN  IF \A i \in 1 .. rank : Long(s)[i] = Long(t)[i] \/ 1 \in {Long(s)[i], Long(t)[i]}
        THEN [i \in 1 .. rank |-> IF Long(s)[i] = 1 THEN Long(t)[i] ELSE Long(s)[i]]
        ELSE Invalid

OnnxMatMul(s, t) == IF Len(s) = 2 /\ Len(t) = 2 /\ s[2] = t[1] THEN <<s[1], t[2]>> ELSE Invalid

\* The bias must broadcast to the product; which one is times 0 does not matter.
OnnxGemm(s, t, biases, trans) ==
    LET product == OnnxMatMul(IF "A" \in trans THEN Reverse(s) ELSE s,
                              IF "B" \in trans THEN Reverse(t) ELSE t)
    IN  IF product # Invalid /\ \A c \in biases : Broadcast(product, c) = product
        THEN product ELSE Invalid

\* How often a window fits when it starts at each multiple of the stride.
Fitting(size, kernel, stride, dilation) ==
    Cardinality({i \in 0 .. size : i % stride = 0 /\ i + dilation * (kernel - 1) < size})
OnnxSliding(s, kernel, channels, win) ==
    <<s[1], channels>> \o [i \in 1 .. 2 |->
        Fitting(win.pads[i] + s[i + 2] + win.pads[i + 2], kernel[i], win.strides[i], win.dilations[i])]
OnnxConv(s, t, biases, win) ==
    IF s[2] = t[2] /\ \A c \in biases : c = <<t[1]>>
    THEN OnnxSliding(s, <<t[3], t[4]>>, t[1], win) ELSE Invalid

\* 0 copies a size, one -1 takes what is left.
OnnxReshape(s, target) ==
    LET open   == {i \in DOMAIN target : target[i] = -1}
        copied == [i \in DOMAIN target |-> IF target[i] = 0 THEN s[i] ELSE target[i]]
        known  == NumElements([i \in DOMAIN target |-> IF i \in open THEN 1 ELSE copied[i]])
    IN  CASE \E i \in DOMAIN target : target[i] = 0 /\ i > Len(s) -> Invalid
          [] open = {} -> IF known = NumElements(s) THEN copied ELSE Invalid
          [] OTHER -> IF Cardinality(open) = 1 /\ known > 0 /\ NumElements(s) % known = 0
                      THEN [i \in DOMAIN target |->
                               IF i \in open THEN NumElements(s) \div known ELSE copied[i]]
                      ELSE Invalid

FlattenAt(s, at) == <<NumElements(SubSeq(s, 1, at)), NumElements(SubSeq(s, at + 1, Len(s)))>>

-----------------------------------------------------------------------------
Init == \E start \in Starts :
            /\ x = [type |-> value_to_tensor_type(start.dims), shape |-> start.shape]
            /\ onnx = start.shape
            /\ static = (\A i \in DOMAIN start.dims : start.dims[i] > 0)
            /\ empty = (0 \in ToSet(start.shape))
            /\ outcome = "ok" /\ within = TRUE /\ count = 0

OutcomeOf(e) ==
    IF ~e.fits THEN "overflow"
    ELSE IF ~e.defined THEN "ill-formed"
    ELSE IF \E op \in e.ops : ~op.verified THEN "refused"
    ELSE IF \E op \in e.ops : ~op.right THEN "wrong" ELSE "ok"

\* A node is emitted: reference is ONNX's shape for it, supported whether it is of a
\* form the emitters are written for.
Emit(e, reference, supported) ==
    /\ outcome = "ok" /\ count < MaxNodes
    /\ count' = count + 1
    /\ outcome' = OutcomeOf(e)
    /\ x' = IF OutcomeOf(e) = "ok" THEN e.result ELSE x
    /\ onnx' = IF onnx = Invalid THEN Invalid ELSE reference
    /\ within' = (within /\ onnx # Invalid /\ supported)
    /\ empty' = (empty \/ 0 \in ToSet(x'.shape))
    /\ UNCHANGED static

Rank == Len(x.type)

\* The right operand is an initializer, or the left one again.
EmitElementwise == \E rhs \in {Constant(w) : w \in Weights} \cup {x} :
    Emit(emit_elementwise(x, rhs), Broadcast(onnx, rhs.shape), onnx = rhs.shape)

EmitRelu == Emit(emit_relu(x), onnx, TRUE)

EmitMatmul == \E w \in Weights :
    /\ Rank >= 1 /\ Len(w) >= 2
    /\ Emit(emit_matmul(x, Constant(w)), OnnxMatMul(onnx, w), Rank = 2)

\* Without a bias, or with a bias from the initializers; alpha is never 1.
EmitGemm == \E w \in Weights, bias \in {{}} \cup {{c} : c \in Weights},
               trans \in SUBSET {"A", "B"}, beta \in 0 .. 2 :
    /\ Rank >= (IF "A" \in trans THEN 2 ELSE 1) /\ Len(w) >= (IF "B" \in trans THEN 1 ELSE 2)
    /\ Emit(emit_gemm(x, Constant(w), {Constant(c) : c \in bias}, trans, beta),
            OnnxGemm(onnx, w, IF beta = 0 THEN {} ELSE bias, trans),
            /\ trans # {"A", "B"} /\ OnnxGemm(onnx, w, {}, trans) # Invalid
            /\ \A c \in bias : c = Tail(OnnxGemm(onnx, w, {}, trans)))

EmitConv == \E w \in Weights, bias \in {{}} \cup {{c} : c \in Weights}, win \in Windows :
    /\ Rank >= 4 /\ Len(w) >= 4
    /\ LET reference == OnnxConv(onnx, w, bias, win)
       IN  Emit(emit_conv(x, Constant(w), {Constant(c) : c \in bias}, win), reference,
                /\ Rank = 4 /\ Len(w) = 4
                /\ reference # Invalid /\ reference[3] > 0 /\ reference[4] > 0)

EmitMaxpool == \E kernel \in Kernels, win \in Windows :
    /\ Rank >= 4
    /\ LET reference == OnnxSliding(onnx, kernel, onnx[2], win)
       IN  Emit(emit_maxpool(x, kernel, win), reference,
                Rank = 4 /\ reference[3] > 0 /\ reference[4] > 0)

EmitGlobalAvgPool ==
    /\ Rank >= 4
    /\ Emit(emit_global_avg_pool(x), <<onnx[1], onnx[2], 1, 1>>, Rank = 4)

EmitBatchnorm == \E w \in Weights :
    /\ Rank >= 4
    /\ Emit(emit_batchnorm(x, [i \in 1 .. 4 |-> Constant(w)]),
            IF w = <<onnx[2]>> THEN onnx ELSE Invalid, Rank = 4)

EmitSoftmax == \E axis \in Axes :
    Emit(emit_softmax(x, axis), IF axis \in -Len(onnx) .. Len(onnx) - 1 THEN onnx ELSE Invalid, TRUE)

EmitReshape == \E target \in Targets :
    Emit(emit_reshape(x, target), OnnxReshape(onnx, target), \A i \in DOMAIN target : target[i] > 0)

EmitFlatten == \E axis \in Axes :
    LET at == IF axis < 0 THEN axis + Rank ELSE axis
    IN  at \in 0 .. Rank /\ Emit(emit_flatten(x, at), FlattenAt(onnx, at), TRUE)

\* emit_func: a result of rank above 2 is collapsed to [first, all the others].
Collapsed(dims) == IF Len(dims) > 2 THEN <<dims[1], NumElements(Tail(dims))>> ELSE dims
Return ==
    /\ outcome = "ok"
    /\ IF Rank > 2 /\ ~Multiplies(Tail(x.type))
       THEN outcome' = "overflow" /\ UNCHANGED x
       ELSE outcome' = "returned" /\ x' = [type |-> Collapsed(x.type), shape |-> Collapsed(x.shape)]
    /\ UNCHANGED <<onnx, static, within, empty, count>>

Next == \/ EmitElementwise \/ EmitRelu \/ EmitMatmul \/ EmitGemm \/ EmitConv \/ EmitMaxpool
        \/ EmitGlobalAvgPool \/ EmitBatchnorm \/ EmitSoftmax \/ EmitReshape \/ EmitFlatten
        \/ Return
Spec == Init /\ [][Next]_vars

-----------------------------------------------------------------------------
(* Properties *)

Agrees(dims, shape) ==
    /\ Len(dims) = Len(shape)
    /\ \A i \in DOMAIN dims : dims[i] = shape[i] \/ dims[i] = Dynamic

\* Whatever compiles and runs has the sizes ONNX gives it, for every actual size of an
\* unknown dimension, through chains of nodes, and [first, all the others] of them when
\* returned; the types, on which code that is generated later relies, say the same.
\* Empty tensors are left out: MLIR does not check their sizes, and a window that does
\* not fit into one may have OutSize 1.
CompiledSizesAreOnnx ==
    outcome \in {"ok", "returned"} /\ onnx # Invalid /\ ~empty =>
        /\ x.shape = IF outcome = "returned" THEN Collapsed(onnx) ELSE onnx
        /\ Agrees(x.type, x.shape)

\* If all sizes are known, the checks of the emitters and of MLIR between them leave
\* nothing to run time: no operation leaves its operands, and a node whose operands do
\* not go together is refused.  The emitters compare no sizes themselves.
StaticIsChecked ==
    static /\ ~empty => outcome # "wrong" /\ (outcome = "ok" => onnx # Invalid)

\* A chain of valid nodes of the supported forms, all sizes known, is never refused and
\* never ill-formed: the sizes computed for one operation suit the next, unless one of
\* them is too large for an int64_t.
SupportedCompiles ==
    static /\ within /\ onnx # Invalid => outcome \in {"ok", "returned", "overflow"}

\* "Supported ONNX ops: Add, Mul, ..., Reshape, Flatten, MaxPool, ..." (README.md:13-14):
\* a valid node of such a kind, all sizes known, is compiled.
SupportedOpsCompile == static /\ onnx # Invalid => outcome \in {"ok", "returned"}

=============================================================================
