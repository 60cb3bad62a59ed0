-------------------------- MODULE BoardWorkflowProofs --------------------------
(***************************************************************************)
(* Proofs about BoardWorkflow for every set of variants, every size the    *)
(* toolchain may give the gateware of a board, and every sequence of runs, *)
(* failures and kills.                                                     *)
(***************************************************************************)
EXTENDS BoardWorkflow, TLAPS

-----------------------------------------------------------------------------
(* The operators *)

LEMMA OffsetFacts ==
  /\ target = "kosagi_fomu" => BiosFlashOffset = 6
  /\ target = "icebreaker" => BiosFlashOffset = 3
  /\ target \notin {"kosagi_fomu", "icebreaker"} => BiosFlashOffset = 0
  BY DEF BiosFlashOffset

(* The variant a board is given is one the files have a core for. *)
LEMMA FileFacts ==
  ASSUME NEW v \in Variants
  PROVE  CoreFile(v) \in Files /\ CoreFile(VariantFor(v)) \in Files
<1>1. v.cfu \in BOOLEAN
  BY WorkflowAssumption
<1>2. VariantFor(v) \in Variants \cup {Fomu(TRUE), Fomu(FALSE)}
  BY <1>1 DEF VariantFor
<1> QED
  BY <1>2 DEF Files, Supported

LEMMA ImageFacts ==
  ASSUME NEW g, g.size \in 1 .. 4
  PROVE  /\ DOMAIN GatewareImage(g) = 0 .. g.size - 1
         /\ \A k \in 0 .. g.size - 1 :
              GatewareImage(g)[k] = [what |-> "part", of |-> g, k |-> k]
  BY DEF GatewareImage

(* A unit of flash after programming. *)
LEMMA FlashedFacts ==
  ASSUME NEW base, NEW image, NEW u \in FlashUnits
  PROVE  Flashed(base, image)[u] = IF u - base \in DOMAIN image THEN image[u - base]
                                   ELSE flash[u]
  BY DEF Flashed

-----------------------------------------------------------------------------
(* The flash *)

(* Gateware is written from the first unit on. *)
LEMMA FlashGateware ==
  ASSUME IInv, target # "kosagi_fomu", out.gateware # None, target' = target,
         flash' = Flashed(0, GatewareImage(out.gateware))
  PROVE  FlashInv' /\ flash'[0] = GatewareImage(out.gateware)[0]
<1> DEFINE g == out.gateware
<1>1. g.size \in 1 .. 4 /\ FlashInv
  BY DEF IInv, OutInv
<1>2. \A u \in FlashUnits :
        flash'[u] = IF u \in 0 .. g.size - 1 THEN [what |-> "part", of |-> g, k |-> u]
                    ELSE flash[u]
  <2>1. ASSUME NEW u \in FlashUnits
        PROVE  flash'[u] = IF u \in 0 .. g.size - 1
                           THEN [what |-> "part", of |-> g, k |-> u] ELSE flash[u]
    <3>1. u - 0 = u
      BY DEF FlashUnits
    <3>2. /\ DOMAIN GatewareImage(g) = 0 .. g.size - 1
          /\ \A k \in 0 .. g.size - 1 :
               GatewareImage(g)[k] = [what |-> "part", of |-> g, k |-> k]
      BY <1>1, ImageFacts
    <3>3. flash'[u] = IF u \in DOMAIN GatewareImage(g) THEN GatewareImage(g)[u]
                      ELSE flash[u]
      BY <3>1, FlashedFacts
    <3> QED
      BY <3>2, <3>3
  <2> QED
    BY <2>1
<1>3. flash' = [u \in FlashUnits |-> flash'[u]]
  BY DEF Flashed
<1>4. GatewareUnit' = 0 /\ GatewareUnit = 0
  BY DEF GatewareUnit
<1>5. ASSUME NEW u \in FlashUnits, flash'[u].what = "part", flash'[u].k = 0
      PROVE  u = 0 /\ flash'[u].of = g
  <2>1. CASE u \in 0 .. g.size - 1
    <3>1. flash'[u] = [what |-> "part", of |-> g, k |-> u]
      BY <1>2, <2>1
    <3> QED
      BY <1>5, <3>1
  <2>2. CASE u \notin 0 .. g.size - 1
    <3>1. flash[u].what = "part" /\ flash[u].k = 0
      BY <1>2, <1>5, <2>2
    <3>2. u = 0
      BY <1>1, <1>4, <3>1 DEF FlashInv
    <3> QED
      BY <1>1, <2>2, <3>2
  <2> QED
    BY <2>1, <2>2
<1>6. \A k \in 0 .. g.size - 1 : flash'[0 + k] = GatewareImage(g)[k]
  <2>1. ASSUME NEW k \in 0 .. g.size - 1
        PROVE  flash'[0 + k] = GatewareImage(g)[k]
    <3>1. k \in FlashUnits /\ 0 + k = k
      BY <1>1 DEF FlashUnits
    <3> QED
      BY <1>1, <1>2, <3>1, ImageFacts
  <2> QED
    BY <2>1
<1>7. flash'[0] = GatewareImage(g)[0]
  BY <1>1, <1>6
<1>8. FlashInv'
  BY <1>1, <1>3, <1>4, <1>5, <1>6 DEF FlashInv
<1> QED
  BY <1>7, <1>8

(* Programming was cut while the gateware was written. *)
LEMMA FlashCutGateware ==
  ASSUME IInv, target # "kosagi_fomu", out.gateware # None, target' = target,
         flash' = Flashed(0, [GatewareImage(out.gateware) EXCEPT
                                ![out.gateware.size - 1] = Garbage])
  PROVE  FlashInv'
<1> DEFINE g == out.gateware
           image == [GatewareImage(g) EXCEPT ![g.size - 1] = Garbage]
<1>1. g.size \in 1 .. 4 /\ FlashInv
  BY DEF IInv, OutInv
<1>2. /\ DOMAIN GatewareImage(g) = 0 .. g.size - 1
      /\ \A k \in 0 .. g.size - 1 :
           GatewareImage(g)[k] = [what |-> "part", of |-> g, k |-> k]
  BY <1>1, ImageFacts
<1>3. GatewareImage(g) = [k \in 0 .. g.size - 1 |-> GatewareImage(g)[k]]
  BY <1>2 DEF GatewareImage
<1>4. /\ DOMAIN image = 0 .. g.size - 1
      /\ \A k \in 0 .. g.size - 1 :
           image[k] = IF k = g.size - 1 THEN Garbage
                      ELSE [what |-> "part", of |-> g, k |-> k]
  BY <1>2, <1>3
<1> HIDE DEF image
<1>5. \A u \in FlashUnits :
        flash'[u] = IF u \in 0 .. g.size - 1 THEN image[u] ELSE flash[u]
  <2>1. ASSUME NEW u \in FlashUnits
        PROVE  flash'[u] = IF u \in 0 .. g.size - 1 THEN image[u] ELSE flash[u]
    <3>1. u - 0 = u
      BY DEF FlashUnits
    <3>2. flash' = Flashed(0, image)
      BY DEF image
    <3>3. flash'[u] = IF u \in DOMAIN image THEN image[u] ELSE flash[u]
      BY <3>1, <3>2, FlashedFacts
    <3> QED
      BY <1>4, <3>3
  <2> QED
    BY <2>1
<1>6. flash' = [u \in FlashUnits |-> flash'[u]]
  BY DEF Flashed
<1>7. GatewareUnit' = 0 /\ GatewareUnit = 0
  BY DEF GatewareUnit
<1>8. ASSUME NEW u \in FlashUnits, flash'[u].what = "part", flash'[u].k = 0
      PROVE  u = 0 /\ flash'[u].of = g
  <2>1. CASE u \in 0 .. g.size - 1
    <3>1. flash'[u] = IF u = g.size - 1 THEN Garbage
                      ELSE [what |-> "part", of |-> g, k |-> u]
      BY <1>4, <1>5, <2>1
    <3>2. u # g.size - 1
      BY <1>8, <3>1 DEF Garbage
    <3>3. flash'[u] = [what |-> "part", of |-> g, k |-> u]
      BY <3>1, <3>2
    <3> QED
      BY <1>8, <3>3
  <2>2. CASE u \notin 0 .. g.size - 1
    <3>1. flash[u].what = "part" /\ flash[u].k = 0
      BY <1>5, <1>8, <2>2
    <3>2. u = 0
      BY <1>1, <1>7, <3>1 DEF FlashInv
    <3> QED
      BY <1>1, <2>2, <3>2
  <2> QED
    BY <2>1, <2>2
<1>9. g.size - 1 \in 0 .. g.size - 1 /\ flash'[0 + (g.size - 1)] = Garbage
  <2>1. g.size - 1 \in FlashUnits /\ 0 + (g.size - 1) = g.size - 1
        /\ g.size - 1 \in 0 .. g.size - 1
    BY <1>1 DEF FlashUnits
  <2> QED
    BY <1>4, <1>5, <2>1
<1> QED
  BY <1>1, <1>6, <1>7, <1>8, <1>9 DEF FlashInv

(* Software of the iCEbreaker is written behind its gateware, unless that  *)
(* is too large.                                                           *)
LEMMA FlashSoftware ==
  ASSUME FlashInv, target = "icebreaker", target' = target,
         NEW s, s.what # "part",
         flash' = Flashed(3, [k \in {0} |-> s])
  PROVE  FlashInv' /\ flash'[0] = flash[0] /\ flash'[3] = s
<1> DEFINE image == [k \in {0} |-> s]
<1>1. \A u \in FlashUnits : flash'[u] = IF u = 3 THEN s ELSE flash[u]
  <2>1. ASSUME NEW u \in FlashUnits
        PROVE  flash'[u] = IF u = 3 THEN s ELSE flash[u]
    <3>1. u - 3 \in {0} <=> u = 3
      BY DEF FlashUnits
    <3>2. DOMAIN image = {0} /\ image[0] = s
      OBVIOUS
    <3>3. flash'[u] = IF u - 3 \in DOMAIN image THEN image[u - 3] ELSE flash[u]
      BY FlashedFacts
    <3> QED
      BY <3>1, <3>2, <3>3
  <2> QED
    BY <2>1
<1>2. flash' = [u \in FlashUnits |-> flash'[u]]
  BY DEF Flashed
<1>3. GatewareUnit' = 0 /\ GatewareUnit = 0 /\ BiosFlashOffset' = 3
      /\ BiosFlashOffset = 3
  BY DEF GatewareUnit, BiosFlashOffset
<1>4. ASSUME NEW u \in FlashUnits, flash'[u].what = "part", flash'[u].k = 0
      PROVE  /\ u = 0 /\ flash'[u] = flash[u]
             /\ flash'[u].of.size \in 1 .. 4
             /\ \/ \A k \in 0 .. flash'[u].of.size - 1 :
                     flash'[u + k] = GatewareImage(flash'[u].of)[k]
                \/ \E k \in 0 .. flash'[u].of.size - 1 : flash'[u + k] = Garbage
                \/ flash'[u].of.size > 3
  <2>1. u # 3 /\ flash'[u] = flash[u]
    BY <1>1, <1>4
  <2>2. /\ u = 0
        /\ flash[u].of.size \in 1 .. 4
        /\ \/ \A k \in 0 .. flash[u].of.size - 1 :
                flash[u + k] = GatewareImage(flash[u].of)[k]
           \/ \E k \in 0 .. flash[u].of.size - 1 : flash[u + k] = Garbage
           \/ flash[u].of.size > 3
    BY <1>3, <1>4, <2>1 DEF FlashInv
  <2> DEFINE size == flash[u].of.size
  <2>3. CASE size > 3
    BY <2>1, <2>2, <2>3
  <2>4. CASE ~(size > 3)
    <3>1. size \in 1 .. 4
      BY <2>2
    <3>2. \A k \in 0 .. size - 1 : flash'[u + k] = flash[u + k]
      <4>1. ASSUME NEW k \in 0 .. size - 1
            PROVE  flash'[u + k] = flash[u + k]
        <5> HIDE DEF size
        <5>1. u + k \in FlashUnits /\ u + k # 3
          BY <2>2, <2>4, <3>1 DEF FlashUnits
        <5> QED
          BY <1>1, <5>1
      <4> QED
        BY <4>1
    <3> QED
      BY <2>1, <2>2, <2>4, <3>2
  <2> QED
    BY <2>3, <2>4
<1>5. flash'[0] = flash[0] /\ flash'[3] = s
  BY <1>1 DEF FlashUnits
<1> QED
  BY <1>2, <1>3, <1>4, <1>5 DEF FlashInv

(* The image of a Fomu is written behind the reserved units. *)
LEMMA FlashImage ==
  ASSUME FlashInv, target = "kosagi_fomu", target' = target,
         NEW g, g.size \in 1 .. 2,
         NEW image, DOMAIN image = 0 .. 2, image[2] = SoftwareUnit(App),
         \A k \in 0 .. g.size - 1 : image[k] = GatewareImage(g)[k],
         \A k \in g.size .. 1 : image[k] = Empty,
         flash' = Flashed(4, image)
  PROVE  /\ FlashInv'
         /\ flash'[6] = SoftwareUnit(App)
         /\ \A k \in 0 .. g.size - 1 : flash'[4 + k] = GatewareImage(g)[k]
<1>1. g.size \in 1 .. 4
  OBVIOUS
<1>2. \A k \in 0 .. g.size - 1 :
        /\ image[k] = GatewareImage(g)[k]
        /\ GatewareImage(g)[k] = [what |-> "part", of |-> g, k |-> k]
  BY <1>1, ImageFacts
<1>3. \A u \in FlashUnits :
        flash'[u] = IF u \in 4 .. 6 THEN image[u - 4] ELSE flash[u]
  <2>1. ASSUME NEW u \in FlashUnits
        PROVE  flash'[u] = IF u \in 4 .. 6 THEN image[u - 4] ELSE flash[u]
    <3>1. u - 4 \in 0 .. 2 <=> u \in 4 .. 6
      BY DEF FlashUnits
    <3>2. flash'[u] = IF u - 4 \in DOMAIN image THEN image[u - 4] ELSE flash[u]
      BY FlashedFacts
    <3> QED
      BY <3>1, <3>2
  <2> QED
    BY <2>1
<1>4. flash' = [u \in FlashUnits |-> flash'[u]]
  BY DEF Flashed
<1>5. GatewareUnit' = 4 /\ GatewareUnit = 4
  BY DEF GatewareUnit, Reserved
<1>6. ASSUME NEW u \in FlashUnits, flash'[u].what = "part", flash'[u].k = 0
      PROVE  u = 4 /\ flash'[u].of = g
  <2>1. CASE u \in 4 .. 6
    <3>1. flash'[u] = image[u - 4]
      BY <1>3, <2>1
    <3>2. u # 6
      BY <1>6, <3>1 DEF SoftwareUnit
    <3>3. Empty.what # "part"
      BY DEF Empty
    <3>4. ~(u - 4 \in g.size .. 1)
      BY <1>6, <3>1, <3>3
    <3>5. u - 4 \in 0 .. g.size - 1
      BY <1>1, <2>1, <3>2, <3>4
    <3>6. flash'[u] = [what |-> "part", of |-> g, k |-> u - 4]
      BY <1>2, <3>1, <3>5
    <3>7. flash'[u].k = u - 4 /\ flash'[u].of = g
      BY <3>6
    <3>8. u - 4 = 0 /\ flash'[u].of = g
      BY <1>6, <3>7
    <3> QED
      BY <2>1, <3>8
  <2>2. CASE u \notin 4 .. 6
    <3>1. flash[u].what = "part" /\ flash[u].k = 0
      BY <1>3, <1>6, <2>2
    <3>2. u = 4
      BY <1>1, <1>5, <3>1 DEF FlashInv
    <3> QED
      BY <2>2, <3>2
  <2> QED
    BY <2>1, <2>2
<1>7. \A k \in 0 .. g.size - 1 : flash'[4 + k] = GatewareImage(g)[k]
  <2>1. ASSUME NEW k \in 0 .. g.size - 1
        PROVE  flash'[4 + k] = GatewareImage(g)[k]
    <3>1. 4 + k \in FlashUnits /\ 4 + k \in 4 .. 6 /\ 4 + k - 4 = k
      BY <1>1 DEF FlashUnits
    <3>2. flash'[4 + k] = image[k]
      BY <1>3, <3>1
    <3> QED
      BY <1>2, <3>2
  <2> QED
    BY <2>1
<1>8. FlashInv'
  BY <1>1, <1>4, <1>5, <1>6, <1>7 DEF FlashInv
<1>9. flash'[6] = SoftwareUnit(App)
  <2>1. 6 \in FlashUnits /\ 6 \in 4 .. 6 /\ 6 - 4 = 2
    BY DEF FlashUnits
  <2> QED
    BY <1>3, <2>1
<1> QED
  BY <1>7, <1>8, <1>9

(* Programming was cut while the image was written. *)
LEMMA FlashCutImage ==
  ASSUME FlashInv, target = "kosagi_fomu", target' = target,
         flash' = Flashed(4, [k \in {0} |-> Garbage])
  PROVE  FlashInv'
<1> DEFINE image == [k \in {0} |-> Garbage]
<1>2. \A u \in FlashUnits : flash'[u] = IF u = 4 THEN Garbage ELSE flash[u]
  <2>1. ASSUME NEW u \in FlashUnits
        PROVE  flash'[u] = IF u = 4 THEN Garbage ELSE flash[u]
    <3>1. u - 4 \in {0} <=> u = 4
      BY DEF FlashUnits
    <3>2. DOMAIN image = {0} /\ image[0] = Garbage
      OBVIOUS
    <3>3. flash'[u] = IF u - 4 \in DOMAIN image THEN image[u - 4] ELSE flash[u]
      BY FlashedFacts
    <3> QED
      BY <3>1, <3>2, <3>3
  <2> QED
    BY <2>1
<1>3. flash' = [u \in FlashUnits |-> flash'[u]]
  BY DEF Flashed
<1>4. GatewareUnit' = 4 /\ GatewareUnit = 4
  BY DEF GatewareUnit, Reserved
<1>5. ASSUME NEW u \in FlashUnits, flash'[u].what = "part", flash'[u].k = 0
      PROVE  FALSE
  <2>1. u # 4
    <3>1. Garbage.what # "part"
      BY DEF Garbage
    <3> QED
      BY <1>2, <1>5, <3>1
  <2>2. flash[u].what = "part" /\ flash[u].k = 0
    BY <1>2, <1>5, <2>1
  <2> QED
    BY <1>4, <2>1, <2>2 DEF FlashInv
<1> QED
  BY <1>3, <1>5 DEF FlashInv

(* The flash invariant is about the board and its flash only. *)
LEMMA FlashSame ==
  ASSUME FlashInv, UNCHANGED <<target, flash>>
  PROVE  FlashInv'
  BY DEF FlashInv, GatewareUnit, BiosFlashOffset

-----------------------------------------------------------------------------
(* The process *)

Process(pc, status, args, offset, soc, image) ==
  [pc |-> pc, status |-> status, args |-> args, offset |-> offset,
   soc |-> soc, image |-> image, failed |-> FALSE]

IsProcess(r) == r = Process(r.pc, r.status, r.args, r.offset, r.soc, r.image)

ProcessDomain == {"pc", "status", "args", "offset", "soc", "image", "failed"}

LEMMA ProcessFields ==
  \A pc, status, args, offset, soc, image :
    LET r == Process(pc, status, args, offset, soc, image)
    IN /\ r.pc = pc /\ r.status = status /\ r.args = args
       /\ r.offset = offset /\ r.soc = soc /\ r.image = image
       /\ r.failed = FALSE
  BY DEF Process

LEMMA ProcessIs ==
  ASSUME NEW s, s = [x \in DOMAIN s |-> s[x]], DOMAIN s = ProcessDomain,
         s.failed = FALSE
  PROVE  s = Process(s.pc, s.status, s.args, s.offset, s.soc, s.image)
  BY DEF Process, ProcessDomain

(* What the steps of a process make of it. *)
LEMMA StepsTo ==
  ASSUME IsProcess(run), NEW p, run' = [run EXCEPT !.pc = p]
  PROVE  run' = Process(p, run.status, run.args, run.offset, run.soc, run.image)
<1>1. DOMAIN run' = ProcessDomain /\ run' = [x \in DOMAIN run' |-> run'[x]]
  BY DEF Process, ProcessDomain, IsProcess
<1>2. /\ run'.pc = p
      /\ run'.status = run.status
      /\ run'.args = run.args
      /\ run'.offset = run.offset
      /\ run'.soc = run.soc
      /\ run'.image = run.image
      /\ run'.failed = FALSE
  BY DEF Process, IsProcess
<1> QED
  BY <1>1, <1>2, ProcessIs

LEMMA Constructs ==
  ASSUME IsProcess(run), Construct
  PROVE  run' = Process(IF run.args.software THEN "software" ELSE "make", run.status,
                        [run.args EXCEPT !.variant = VariantFor(run.args.variant)],
                        BiosFlashOffset, run.soc, run.image)
<1> DEFINE args == [run.args EXCEPT !.variant = VariantFor(run.args.variant)]
           p == IF run.args.software THEN "software" ELSE "make"
<1>1. DOMAIN run' = ProcessDomain /\ run' = [x \in DOMAIN run' |-> run'[x]]
  BY DEF Process, ProcessDomain, IsProcess, Construct
<1>2. /\ run'.pc = p
      /\ run'.status = run.status
      /\ run'.args = args
      /\ run'.offset = BiosFlashOffset
      /\ run'.soc = run.soc
      /\ run'.image = run.image
      /\ run'.failed = FALSE
  BY DEF Process, IsProcess, Construct
<1> HIDE DEF args, p
<1>3. run' = Process(p, run.status, args, BiosFlashOffset, run.soc, run.image)
  BY <1>1, <1>2, ProcessIs
<1> QED
  BY <1>3 DEF args, p

LEMMA MakesSoC ==
  ASSUME IsProcess(run), Made
  PROVE  run' = Process("copy", run.status, run.args, run.offset,
                        [what |-> "soc", variant |-> run.args.variant,
                         reset |-> run.offset, freq |-> SysClkFreq], run.image)
<1>1. DOMAIN run' = ProcessDomain /\ run' = [x \in DOMAIN run' |-> run'[x]]
  BY DEF Process, ProcessDomain, IsProcess, Made, ResetOffset
<1>2. /\ run'.pc = "copy"
      /\ run'.status = run.status
      /\ run'.args = run.args
      /\ run'.offset = run.offset
      /\ run'.soc = [what |-> "soc", variant |-> run.args.variant,
                     reset |-> run.offset, freq |-> SysClkFreq]
      /\ run'.image = run.image
      /\ run'.failed = FALSE
  BY DEF Process, IsProcess, Made, ResetOffset
<1> QED
  BY <1>1, <1>2, ProcessIs

LEMMA MakesImage ==
  ASSUME IsProcess(run), NEW p, NEW i, run' = [run EXCEPT !.pc = p, !.image = i]
  PROVE  run' = Process(p, run.status, run.args, run.offset, run.soc, i)
<1>1. DOMAIN run' = ProcessDomain /\ run' = [x \in DOMAIN run' |-> run'[x]]
  BY DEF Process, ProcessDomain, IsProcess
<1>2. /\ run'.pc = p
      /\ run'.status = run.status
      /\ run'.args = run.args
      /\ run'.offset = run.offset
      /\ run'.soc = run.soc
      /\ run'.image = i
      /\ run'.failed = FALSE
  BY DEF Process, IsProcess
<1> QED
  BY <1>1, <1>2, ProcessIs

LEMMA IsDone ==
  ASSUME IsProcess(run), Ends("ok")
  PROVE  run' = Process("idle", "ok", run.args, run.offset, run.soc, None)
<1>1. DOMAIN run' = ProcessDomain /\ run' = [x \in DOMAIN run' |-> run'[x]]
  BY DEF Process, ProcessDomain, IsProcess, Ends
<1>2. /\ run'.pc = "idle"
      /\ run'.status = "ok"
      /\ run'.args = run.args
      /\ run'.offset = run.offset
      /\ run'.soc = run.soc
      /\ run'.image = None
      /\ run'.failed = FALSE
  BY DEF Process, IsProcess, Ends
<1> QED
  BY <1>1, <1>2, ProcessIs

(* A process that has not failed is one of these. *)
LEMMA ProcessOf ==
  ASSUME RunInv, run.pc # "idle" \/ run.status = "ok"
  PROVE  /\ IsProcess(run)
         /\ run.args = [software |-> run.args.software, build |-> run.args.build,
                        load |-> run.args.load, compile |-> run.args.compile,
                        network |-> run.args.network, variant |-> run.args.variant,
                        toolchain |-> run.args.toolchain]
         /\ File \in Files
         /\ run.args.build => run.args.compile /\ ~run.args.software
  BY DEF RunInv, Process, IsProcess

(* What is known of a board does not change. *)
LEMMA SameBoard ==
  ASSUME target' = target
  PROVE  BiosFlashOffset' = BiosFlashOffset /\ (Ice40' <=> Ice40)
  BY DEF BiosFlashOffset, Ice40

(* Nothing is claimed of a run that has not ended well. *)
LEMMA NotOk ==
  ASSUME run'.pc # "idle" \/ run'.status # "ok"
  PROVE  SoftwareAtReset' /\ OkMeansBuilt'
  BY DEF SoftwareAtReset, OkMeansBuilt, Ok

(* The process ends with an exception, or is killed. *)
LEMMA EndsBadly ==
  ASSUME OutInv, FlashInv', NEW status, status # "ok",
         run' = [pc |-> "idle", status |-> status],
         UNCHANGED <<target, vdir, out>>, CoreInv, DOMAIN cores' = Files
  PROVE  IInv'
<1>1. run'.pc = "idle" /\ run'.status # "ok"
  OBVIOUS
<1>2. OutInv'
  BY SameBoard DEF OutInv
<1>3. RunInv'
  BY <1>1 DEF RunInv
<1>4. CoreInv'
  BY <1>1 DEF CoreInv
<1>5. BuildInv' /\ ImageInv'
  BY <1>1 DEF BuildInv, ImageInv
<1> QED
  BY <1>1, <1>2, <1>3, <1>4, <1>5, NotOk DEF IInv

(* What is to be shown of a process after a step.                          *)
Legal(pc, args, offset, soc) ==
  /\ pc \in {"idle", "parsed", "make", "copy", "compile", "synthesize",
             "load", "load_bios", "software", "create_image",
             "program_image"}
  /\ args = [software |-> args.software, build |-> args.build,
             load |-> args.load, compile |-> args.compile,
             network |-> args.network, variant |-> args.variant,
             toolchain |-> args.toolchain]
  /\ CoreFile(args.variant) \in Files
  /\ args.build => args.compile /\ ~args.software
  /\ pc = "parsed" => args.variant \in Variants
  /\ pc # "parsed" => offset = BiosFlashOffset
  /\ pc = "make" => ~args.software
  /\ pc \in {"copy", "compile", "synthesize", "load", "load_bios"} =>
       /\ ~args.software
       /\ soc = [what |-> "soc", variant |-> args.variant, reset |-> offset,
                 freq |-> IF args.toolchain = "symbiflow" THEN "75MHz" ELSE "100MHz"]
  /\ pc \in {"software", "create_image", "program_image"} => args.software
  /\ pc = "load_bios" => target = "icebreaker"
  /\ pc \in {"create_image", "program_image"} =>
       target = "kosagi_fomu" /\ out'.bios # None /\ out'.gateware # None

LEMMA LegalRun ==
  ASSUME target' = target,
         NEW pc, NEW status, NEW args, NEW offset, NEW soc, NEW image,
         run' = Process(pc, status, args, offset, soc, image),
         Legal(pc, args, offset, soc)
  PROVE  RunInv'
<1>1. /\ run'.pc = pc /\ run'.status = status /\ run'.args = args
      /\ run'.offset = offset /\ run'.soc = soc /\ run'.image = image
  BY ProcessFields
<1>2. BiosFlashOffset' = BiosFlashOffset
  BY SameBoard
<1>3. run' = Process(run'.pc, run'.status, run'.args, run'.offset, run'.soc,
                     run'.image)
  BY <1>1
<1>4. File' = CoreFile(args.variant)
  BY <1>1 DEF File
<1>5. SysClkFreq' = IF args.toolchain = "symbiflow" THEN "75MHz" ELSE "100MHz"
  BY <1>1 DEF SysClkFreq
<1>6. run'.pc # "idle" \/ run'.status = "ok" =>
        /\ run' = [pc |-> run'.pc, status |-> run'.status, args |-> run'.args,
                   offset |-> run'.offset, soc |-> run'.soc, image |-> run'.image,
                   failed |-> FALSE]
        /\ run'.args = [software |-> run'.args.software, build |-> run'.args.build,
                        load |-> run'.args.load, compile |-> run'.args.compile,
                        network |-> run'.args.network, variant |-> run'.args.variant,
                        toolchain |-> run'.args.toolchain]
        /\ File' \in Files
        /\ run'.args.build => run'.args.compile /\ ~run'.args.software
        /\ run'.pc = "parsed" => run'.args.variant \in Variants
        /\ run'.pc # "parsed" => run'.offset = BiosFlashOffset'
  BY <1>1, <1>2, <1>3, <1>4, Zenon DEF Legal, Process
<1>7. /\ run'.pc = "make" => ~run'.args.software
      /\ run'.pc \in {"copy", "compile", "synthesize", "load", "load_bios"} =>
           /\ ~run'.args.software
           /\ run'.soc = [what |-> "soc", variant |-> run'.args.variant,
                          reset |-> run'.offset, freq |-> SysClkFreq']
      /\ run'.pc \in {"software", "create_image", "program_image"} =>
           run'.args.software
  BY <1>1, <1>5, Zenon DEF Legal
<1>8. /\ run'.pc = "load_bios" => target' = "icebreaker"
      /\ run'.pc \in {"create_image", "program_image"} =>
           target' = "kosagi_fomu" /\ out'.bios # None /\ out'.gateware # None
  BY <1>1, Zenon DEF Legal
<1>9. None' = None /\ Files' = Files
  BY DEF None, Files
<1> QED
  BY <1>1, <1>6, <1>7, <1>8, <1>9, Zenon DEF RunInv, Legal

(* The invariant gives it of the process before the step. *)
LEMMA LegalBefore ==
  ASSUME RunInv, run.pc # "idle" \/ run.status = "ok"
  PROVE  /\ run.args = [software |-> run.args.software, build |-> run.args.build,
                        load |-> run.args.load, compile |-> run.args.compile,
                        network |-> run.args.network, variant |-> run.args.variant,
                        toolchain |-> run.args.toolchain]
         /\ CoreFile(run.args.variant) \in Files
         /\ run.args.build => run.args.compile /\ ~run.args.software
         /\ run.pc # "parsed" => run.offset = BiosFlashOffset
         /\ SysClkFreq = IF run.args.toolchain = "symbiflow" THEN "75MHz"
                         ELSE "100MHz"
  BY DEF RunInv, File, SysClkFreq

(* The process ends with a status of zero, with all the variables but the  *)
(* flash unchanged.                                                        *)
LEMMA EndsWell ==
  ASSUME IInv, run.pc \notin {"idle", "parsed"}, Ends("ok"), FlashInv',
         UNCHANGED <<target, cores, vdir, out>>
  PROVE  /\ OutInv' /\ RunInv' /\ CoreInv' /\ BuildInv' /\ ImageInv'
         /\ run'.args = run.args /\ run'.offset = run.offset
         /\ run'.failed = FALSE
<1>1. run' = Process("idle", "ok", run.args, run.offset, run.soc, None)
  <2>1. IsProcess(run)
    BY ProcessOf DEF IInv
  <2> QED
    BY <2>1, IsDone
<1>2. /\ run'.pc = "idle" /\ run'.status = "ok" /\ run'.args = run.args
      /\ run'.offset = run.offset /\ run'.soc = run.soc /\ run'.failed = FALSE
  BY <1>1, ProcessFields
<1>3. OutInv'
  BY SameBoard DEF IInv, OutInv
<1>4. RunInv'
  <2>1. Legal("idle", run.args, run.offset, run.soc)
    BY LegalBefore DEF Legal, IInv
  <2> QED
    BY <1>1, <2>1, LegalRun
<1>5. CoreInv' /\ BuildInv' /\ ImageInv'
  BY <1>2 DEF IInv, CoreInv, BuildInv, ImageInv
<1> QED
  BY <1>2, <1>3, <1>4, <1>5

-----------------------------------------------------------------------------
(* The steps *)

(* A step of a process that goes on, with the flash unchanged. *)
LEMMA GoesOn ==
  ASSUME IInv, OutInv', RunInv', CoreInv', BuildInv', ImageInv', FlashInv',
         run'.pc # "idle"
  PROVE  IInv'
  BY NotOk DEF IInv

LEMMA OutSame ==
  ASSUME OutInv, UNCHANGED <<target, out>>
  PROVE  OutInv'
  BY SameBoard DEF OutInv

LEMMA CoreSame ==
  ASSUME CoreInv, UNCHANGED <<cores, vdir>>, run'.pc \notin {"compile", "synthesize"}
  PROVE  CoreInv'
  BY DEF CoreInv

LEMMA NotLoading ==
  ASSUME run'.pc \notin {"load", "load_bios", "program_image"}
  PROVE  BuildInv' /\ ImageInv'
  BY DEF BuildInv, ImageInv

LEMMA StartStep ==
  ASSUME IInv, Start
  PROVE  IInv'
<1>1. PICK a \in Arguments : run' = Process("parsed", "running", a, 0, None, None)
  BY DEF Start, Process
<1>2. run'.pc = "parsed"
  BY <1>1, ProcessFields
<1>3. /\ a = [software |-> a.software, build |-> a.build, load |-> a.load,
              compile |-> a.compile, network |-> a.network,
              variant |-> a.variant, toolchain |-> a.toolchain]
      /\ a.variant \in Variants
      /\ a.build => a.compile /\ ~a.software
  BY <1>1 DEF Arguments
<1>4. Legal("parsed", a, 0, None)
  BY <1>3, FileFacts DEF Legal
<1>5. target' = target
  BY DEF Start
<1>6. RunInv'
  BY <1>1, <1>4, <1>5, LegalRun
<1>7. OutInv' /\ CoreInv' /\ FlashInv'
  BY <1>2, OutSame, CoreSame, FlashSame DEF IInv, Start
<1> QED
  BY <1>2, <1>6, <1>7, NotLoading, GoesOn

LEMMA ConstructStep ==
  ASSUME IInv, Construct
  PROVE  IInv'
<1> DEFINE v == VariantFor(run.args.variant)
           args == [run.args EXCEPT !.variant = v]
           pc == IF run.args.software THEN "software" ELSE "make"
<1>1. run.pc = "parsed" /\ RunInv /\ run.args.variant \in Variants
  BY DEF IInv, RunInv, Construct
<1>2. run' = Process(pc, run.status, args, BiosFlashOffset, run.soc, run.image)
  BY <1>1, ProcessOf, Constructs
<1>3. /\ run.args = [software |-> run.args.software, build |-> run.args.build,
                     load |-> run.args.load, compile |-> run.args.compile,
                     network |-> run.args.network, variant |-> run.args.variant,
                     toolchain |-> run.args.toolchain]
      /\ run.args.build => run.args.compile /\ ~run.args.software
  BY <1>1, LegalBefore
<1> HIDE DEF v
<1>4. /\ args = [software |-> run.args.software, build |-> run.args.build,
                 load |-> run.args.load, compile |-> run.args.compile,
                 network |-> run.args.network, variant |-> v,
                 toolchain |-> run.args.toolchain]
  BY <1>3
<1>5. CoreFile(v) \in Files
  BY <1>1, FileFacts DEF v
<1> DEFINE soc == run.soc
<1> HIDE DEF args, soc
<1>6. /\ args = [software |-> args.software, build |-> args.build, load |-> args.load,
                 compile |-> args.compile, network |-> args.network,
                 variant |-> args.variant, toolchain |-> args.toolchain]
      /\ args.variant = v
      /\ args.software = run.args.software
      /\ args.build => args.compile /\ ~args.software
  BY <1>3, <1>4
<1>7. Legal(pc, args, BiosFlashOffset, run.soc)
  <2>1. pc \in {"software", "make"}
    OBVIOUS
  <2>2. pc = "make" => ~args.software
    BY <1>6
  <2>3. pc = "software" => args.software
    BY <1>6
  <2> HIDE DEF pc
  <2> QED
    BY <1>5, <1>6, <2>1, <2>2, <2>3 DEF Legal
<1>8. target' = target
  BY DEF Construct
<1>9. RunInv'
  BY <1>2, <1>7, <1>8, LegalRun
<1>10. run'.pc \in {"software", "make"}
  BY <1>2, ProcessFields
<1>11. OutInv' /\ CoreInv' /\ FlashInv'
  BY <1>10, OutSame, CoreSame, FlashSame DEF IInv, Construct
<1> QED
  BY <1>9, <1>10, <1>11, NotLoading, GoesOn

LEMMA MadeStep ==
  ASSUME IInv, run.pc = "make", Made, UNCHANGED <<target, out, flash>>,
         DOMAIN cores' = Files, DOMAIN vdir' = Files,
         vdir' = [f \in Files |-> vdir'[f]]
  PROVE  IInv'
<1> DEFINE soc == [what |-> "soc", variant |-> run.args.variant,
                   reset |-> run.offset, freq |-> SysClkFreq]
<1>1. RunInv /\ ~run.args.software
  BY DEF IInv, RunInv
<1>2. run' = Process("copy", run.status, run.args, run.offset, soc, run.image)
  BY <1>1, ProcessOf, MakesSoC
<1>3. soc = [what |-> "soc", variant |-> run.args.variant, reset |-> run.offset,
             freq |-> IF run.args.toolchain = "symbiflow" THEN "75MHz"
                      ELSE "100MHz"]
  BY DEF SysClkFreq
<1> HIDE DEF soc
<1>4. Legal("copy", run.args, run.offset, soc)
  BY <1>1, <1>3, LegalBefore DEF Legal
<1>5. RunInv'
  BY <1>2, <1>4, LegalRun
<1>6. run'.pc = "copy"
  BY <1>2, ProcessFields
<1>7. OutInv' /\ FlashInv'
  BY OutSame, FlashSame DEF IInv
<1>8. CoreInv'
  BY <1>6 DEF CoreInv
<1> QED
  BY <1>5, <1>6, <1>7, <1>8, NotLoading, GoesOn

LEMMA MakeKnownStep ==
  ASSUME IInv, MakeKnown
  PROVE  IInv'
  BY MadeStep DEF MakeKnown, IInv, CoreInv

LEMMA MakeGeneratedStep ==
  ASSUME IInv, MakeGenerated
  PROVE  IInv'
<1>1. DOMAIN cores' = Files /\ DOMAIN vdir' = Files
      /\ vdir' = [f \in Files |-> vdir'[f]]
  BY DEF MakeGenerated, IInv, CoreInv
<1> QED
  BY <1>1, MadeStep DEF MakeGenerated

LEMMA MakeExitsStep ==
  ASSUME IInv, MakeExits
  PROVE  IInv'
<1>1. run.pc = "make" /\ ~run.args.software /\ Ends("ok")
  BY DEF MakeExits, IInv, RunInv
<1>2. FlashInv'
  BY FlashSame DEF MakeExits, IInv
<1>3. /\ OutInv' /\ RunInv' /\ CoreInv' /\ BuildInv' /\ ImageInv'
      /\ run'.args = run.args
  BY <1>1, <1>2, EndsWell DEF MakeExits
<1>4. SoftwareAtReset'
  BY <1>1, <1>3 DEF SoftwareAtReset
<1>5. OkMeansBuilt'
  BY <1>3 DEF OkMeansBuilt, MakeExits
<1> QED
  BY <1>2, <1>3, <1>4, <1>5 DEF IInv

(* The steps after which a run is over, with an exception. *)
LEMMA RaisesStep ==
  ASSUME IInv, ConstructRaises \/ MakeRaises \/ GenerateFails \/ SynthesisFails
               \/ LoadRaises \/ SoftwareRaises \/ CreateImageRaises
  PROVE  IInv'
<1>1. run' = [pc |-> "idle", status |-> "raised"] /\ UNCHANGED <<target, vdir, out, flash>>
  BY DEF ConstructRaises, MakeRaises, GenerateFails, SynthesisFails, LoadRaises,
         SoftwareRaises, CreateImageRaises, Ends
<1>2. DOMAIN cores' = Files
  BY DEF ConstructRaises, MakeRaises, GenerateFails, SynthesisFails, LoadRaises,
         SoftwareRaises, CreateImageRaises, IInv, CoreInv
<1> QED
  BY <1>1, <1>2, EndsBadly, FlashSame DEF IInv

LEMMA CopyCoreStep ==
  ASSUME IInv, CopyCore
  PROVE  IInv'
<1>1. RunInv /\ run.pc = "copy"
  BY DEF IInv, CopyCore
<1>2. run' = Process("compile", run.status, run.args, run.offset, run.soc, run.image)
  BY <1>1, ProcessOf, StepsTo DEF CopyCore
<1>3. Legal("compile", run.args, run.offset, run.soc)
  BY <1>1, LegalBefore DEF Legal, RunInv
<1>4. RunInv'
  BY <1>2, <1>3, LegalRun DEF CopyCore
<1>5. run'.pc = "compile" /\ run'.args = run.args
  BY <1>2, ProcessFields
<1>6. OutInv' /\ FlashInv'
  BY OutSame, FlashSame DEF IInv, CopyCore
<1>7. CoreInv'
  <2>1. File' = File /\ File \in Files
    BY <1>1, <1>5, ProcessOf DEF File
  <2> QED
    BY <2>1 DEF IInv, CoreInv, CopyCore
<1> QED
  BY <1>4, <1>5, <1>6, <1>7, NotLoading, GoesOn

LEMMA CompileStep ==
  ASSUME IInv, Compile
  PROVE  IInv'
<1> DEFINE p == IF run.args.build THEN "synthesize" ELSE "load"
           bios == [what |-> "bios", variant |-> run.soc.variant,
                    reset |-> run.soc.reset]
<1>1. RunInv /\ run.pc = "compile"
  BY DEF IInv, Compile
<1>2. run' = Process(p, run.status, run.args, run.offset, run.soc, run.image)
  BY <1>1, ProcessOf, StepsTo DEF Compile
<1>3. run'.pc = p /\ run'.args = run.args
  BY <1>2, ProcessFields
<1>4. p \in {"synthesize", "load"} /\ (run.args.build => p = "synthesize")
  OBVIOUS
<1> HIDE DEF p
<1>5. Legal(p, run.args, run.offset, run.soc)
  BY <1>1, <1>4, LegalBefore DEF Legal, RunInv
<1>6. RunInv'
  BY <1>2, <1>5, LegalRun DEF Compile
<1>7. /\ out' = [gateware |-> out'.gateware, bios |-> out'.bios]
      /\ out'.gateware = out.gateware
      /\ out'.bios = out.bios \/ out'.bios = bios
  BY DEF IInv, OutInv, Compile
<1>8. bios = [what |-> "bios", variant |-> bios.variant, reset |-> BiosFlashOffset]
  <2>1. run.soc.reset = run.offset /\ run.offset = BiosFlashOffset
    BY <1>1 DEF RunInv
  <2> QED
    BY <2>1
<1> HIDE DEF bios
<1>9. OutInv'
  <2>1. target' = target /\ BiosFlashOffset' = BiosFlashOffset
    BY SameBoard DEF Compile
  <2> QED
    BY <1>7, <1>8, <2>1 DEF IInv, OutInv
<1>10. CoreInv' /\ FlashInv'
  <2>1. File' = File
    BY <1>3 DEF File
  <2> QED
    BY <1>1, <2>1, FlashSame DEF IInv, CoreInv, Compile
<1>11. BuildInv' /\ ImageInv'
  BY <1>3, <1>4 DEF BuildInv, ImageInv
<1> QED
  BY <1>3, <1>4, <1>6, <1>9, <1>10, <1>11, GoesOn

LEMMA SynthesizeStep ==
  ASSUME IInv, Synthesize
  PROVE  IInv'
<1>1. RunInv /\ run.pc = "synthesize" /\ target \in Targets
  BY DEF IInv, Synthesize, OutInv
<1>2. run' = Process("load", run.status, run.args, run.offset, run.soc, run.image)
  BY <1>1, ProcessOf, StepsTo DEF Synthesize
<1>3. run'.pc = "load" /\ run'.args = run.args
  BY <1>2, ProcessFields
<1>4. Legal("load", run.args, run.offset, run.soc)
  BY <1>1, LegalBefore DEF Legal, RunInv
<1>5. RunInv'
  BY <1>2, <1>4, LegalRun DEF Synthesize
<1>6. /\ run.soc.reset = BiosFlashOffset /\ run.soc.freq = SysClkFreq
      /\ run.soc.variant = run.args.variant
  BY <1>1 DEF RunInv
<1>7. PICK size \in Sizes[target] :
        out' = [out EXCEPT !.gateware =
                 [what |-> "gateware", variant |-> run.soc.variant,
                  reset |-> run.soc.reset, freq |-> run.soc.freq,
                  core |-> vdir[File], size |-> size]]
  BY DEF Synthesize
<1>8. size \in 1 .. 4
  BY <1>1, <1>7, WorkflowAssumption
<1>9. /\ out' = [gateware |-> out'.gateware, bios |-> out'.bios]
      /\ out'.bios = out.bios
      /\ out'.gateware = [what |-> "gateware", variant |-> run.soc.variant,
                          reset |-> run.soc.reset, freq |-> run.soc.freq,
                          core |-> vdir[File], size |-> size]
  BY <1>7 DEF IInv, OutInv
<1>10. /\ out'.gateware # None
       /\ out'.gateware.reset = BiosFlashOffset /\ out'.gateware.freq = SysClkFreq
       /\ out'.gateware.variant = run.args.variant /\ out'.gateware.size \in 1 .. 4
  BY <1>6, <1>8, <1>9 DEF None
<1>11. OutInv'
  <2>1. target' = target /\ BiosFlashOffset' = BiosFlashOffset
    BY SameBoard DEF Synthesize
  <2> QED
    BY <1>9, <1>10, <2>1 DEF IInv, OutInv
<1>12. CoreInv' /\ FlashInv'
  BY <1>3, CoreSame, FlashSame DEF IInv, Synthesize
<1>13. BuildInv' /\ ImageInv'
  <2>1. SysClkFreq' = SysClkFreq
    BY <1>3 DEF SysClkFreq
  <2> QED
    BY <1>3, <1>10, <2>1 DEF BuildInv, ImageInv, None
<1> QED
  BY <1>3, <1>5, <1>11, <1>12, <1>13, GoesOn

(* A run that is to build has, where it loads, built. *)
LEMMA Built ==
  ASSUME IInv, run.pc \in {"load", "load_bios"}, run.args.build
  PROVE  /\ run.failed = FALSE
         /\ out.gateware.variant = run.args.variant
         /\ out.gateware.reset = run.offset
         /\ run.args.toolchain = "symbiflow" => out.gateware.freq # "100MHz"
<1>1. /\ out.gateware # None /\ out.gateware.variant = run.args.variant
      /\ out.gateware.freq = SysClkFreq
  BY DEF IInv, BuildInv
<1>2. run.failed = FALSE /\ run.offset = BiosFlashOffset
  <2>1. RunInv /\ run.pc # "idle" /\ run.pc # "parsed"
    BY DEF IInv
  <2>2. IsProcess(run) /\ run.offset = BiosFlashOffset
    BY <2>1, ProcessOf, LegalBefore
  <2> QED
    BY <2>2, ProcessFields DEF IsProcess
<1>3. out.gateware.reset = BiosFlashOffset
  BY <1>1 DEF IInv, OutInv
<1> QED
  BY <1>1, <1>2, <1>3 DEF SysClkFreq

(* The end of a run that has loaded what it was to load. *)
LEMMA LoadEnds ==
  ASSUME IInv, run.pc \in {"load", "load_bios"}, Ends("ok"), FlashInv',
         UNCHANGED <<target, cores, vdir, out>>,
         run.args.load /\ target # "kosagi_fomu" =>
           flash'[0] = GatewareImage(out.gateware)[0]
  PROVE  IInv'
<1>1. /\ OutInv' /\ RunInv' /\ CoreInv' /\ BuildInv' /\ ImageInv'
      /\ run'.args = run.args /\ run'.offset = run.offset
      /\ run'.failed = FALSE
  BY EndsWell
<1>2. ~run.args.software
  BY DEF IInv, RunInv
<1>3. SoftwareAtReset'
  BY <1>1, <1>2 DEF SoftwareAtReset
<1>4. OkMeansBuilt'
  <2>1. GatewareImage(out.gateware)' = GatewareImage(out.gateware)
    BY DEF GatewareImage
  <2> QED
    BY <1>1, <2>1, Built DEF OkMeansBuilt
<1> QED
  BY <1>1, <1>3, <1>4 DEF IInv

LEMMA LoadNothingStep ==
  ASSUME IInv, LoadNothing
  PROVE  IInv'
<1>1. FlashInv'
  BY FlashSame DEF IInv, LoadNothing
<1> QED
  BY <1>1, LoadEnds DEF LoadNothing

LEMMA LoadGatewareStep ==
  ASSUME IInv, LoadGateware
  PROVE  IInv'
<1>1. FlashInv' /\ flash'[0] = GatewareImage(out.gateware)[0]
  BY FlashGateware DEF LoadGateware
<1>2. CASE target = "icebreaker"
  <2>1. RunInv /\ run.pc = "load" /\ out.gateware # None
    BY DEF IInv, LoadGateware, Loads
  <2>2. run' = Process("load_bios", run.status, run.args, run.offset, run.soc, run.image)
    <3>1. IsProcess(run) /\ run' = [run EXCEPT !.pc = "load_bios"]
      BY <1>2, <2>1, ProcessOf DEF LoadGateware
    <3> QED
      BY <3>1, StepsTo
  <2>3. run'.pc = "load_bios" /\ run'.args = run.args
    BY <2>2, ProcessFields
  <2>4. Legal("load_bios", run.args, run.offset, run.soc)
    BY <1>2, <2>1, LegalBefore DEF Legal, RunInv
  <2>5. RunInv'
    BY <2>2, <2>4, LegalRun DEF LoadGateware
  <2>6. OutInv' /\ CoreInv'
    BY <2>3, OutSame, CoreSame DEF IInv, LoadGateware
  <2>7. BuildInv' /\ ImageInv'
    <3>1. SysClkFreq' = SysClkFreq /\ out' = out
      BY <2>3 DEF SysClkFreq, LoadGateware
    <3>2. GatewareImage(out.gateware)' = GatewareImage(out.gateware)
      BY <3>1 DEF GatewareImage
    <3> QED
      BY <1>1, <2>1, <2>3, <3>1, <3>2 DEF IInv, BuildInv, ImageInv, None
  <2> QED
    BY <1>1, <2>3, <2>5, <2>6, <2>7, GoesOn
<1>3. CASE target # "icebreaker"
  BY <1>1, <1>3, LoadEnds DEF LoadGateware, Loads
<1> QED
  BY <1>2, <1>3

LEMMA LoadBiosStep ==
  ASSUME IInv, LoadBios
  PROVE  IInv'
<1>1. run.pc = "load_bios" /\ target = "icebreaker" /\ run.offset = 3
  BY OffsetFacts DEF IInv, RunInv, LoadBios
<1>2. CASE out.bios = None
  <2>1. Ends("raised") /\ UNCHANGED <<target, cores, vdir, out, flash>>
    BY <1>2 DEF LoadBios
  <2> QED
    BY <2>1, EndsBadly, FlashSame DEF IInv, Ends, CoreInv
<1>3. CASE out.bios # None
  <2> DEFINE s == SoftwareUnit(out.bios)
  <2>1. s.what # "part"
    BY DEF SoftwareUnit
  <2>2. flash' = Flashed(3, [k \in {0} |-> s]) /\ Ends("ok")
        /\ UNCHANGED <<target, cores, vdir, out>>
    BY <1>1, <1>3 DEF LoadBios
  <2> HIDE DEF s
  <2>3. FlashInv' /\ flash'[0] = flash[0]
    BY <1>1, <2>1, <2>2, FlashSoftware DEF IInv
  <2>4. flash[0] = GatewareImage(out.gateware)[0]
    BY <1>1 DEF IInv, BuildInv
  <2> QED
    BY <1>1, <2>2, <2>3, <2>4, LoadEnds
<1> QED
  BY <1>2, <1>3

(* The end of a run that has loaded the software of the user. *)
LEMMA SoftwareEnds ==
  ASSUME IInv, run.pc \in {"software", "program_image"}, Ends("ok"), FlashInv',
         UNCHANGED <<target, cores, vdir, out>>, SoftwareAtReset'
  PROVE  IInv'
<1>1. /\ OutInv' /\ RunInv' /\ CoreInv' /\ BuildInv' /\ ImageInv'
      /\ run'.args = run.args
  BY EndsWell
<1>2. ~run.args.build
  BY ProcessOf DEF IInv, RunInv
<1>3. OkMeansBuilt'
  BY <1>1, <1>2 DEF OkMeansBuilt
<1> QED
  BY <1>1, <1>3 DEF IInv

LEMMA SoftwareNothingStep ==
  ASSUME IInv, SoftwareNothing
  PROVE  IInv'
<1>1. FlashInv'
  BY FlashSame DEF IInv, SoftwareNothing
<1>2. SoftwareAtReset'
  BY SameBoard DEF SoftwareAtReset, SoftwareNothing
<1> QED
  BY <1>1, <1>2, SoftwareEnds DEF SoftwareNothing

LEMMA SoftwareIcebreakerStep ==
  ASSUME IInv, SoftwareIcebreaker
  PROVE  IInv'
<1> DEFINE s == SoftwareUnit(App)
<1>1. run.pc = "software" /\ target = "icebreaker" /\ out.bios # None
  BY DEF SoftwareIcebreaker
<1>2. RunInv /\ OutInv /\ FlashInv
  BY DEF IInv
<1>3. run.offset = 3 /\ BiosFlashOffset = 3
  BY <1>1, <1>2, OffsetFacts, LegalBefore
<1>4. out.bios.reset = 3
  BY <1>1, <1>2, <1>3 DEF OutInv
<1>5. s.what # "part"
  BY DEF SoftwareUnit
<1>6. flash' = Flashed(3, [k \in {0} |-> s]) /\ Ends("ok")
      /\ UNCHANGED <<target, cores, vdir, out>>
  BY <1>3 DEF SoftwareIcebreaker
<1> HIDE DEF s
<1>7. FlashInv' /\ flash'[3] = s
  BY <1>1, <1>2, <1>5, <1>6, FlashSoftware
<1>8. SoftwareAtReset'
  <2>1. App' = App /\ SoftwareUnit(App)' = SoftwareUnit(App)
    BY <1>6 DEF App, SoftwareUnit
  <2>2. out'.bios.reset \in FlashUnits
    BY <1>4, <1>6 DEF FlashUnits
  <2>3. flash'[out'.bios.reset] = SoftwareUnit(App)'
    BY <1>4, <1>6, <1>7, <2>1 DEF s
  <2>4. target' # "kosagi_fomu"
    BY <1>1, <1>6
  <2> QED
    BY <2>2, <2>3, <2>4 DEF SoftwareAtReset
<1> QED
  BY <1>1, <1>6, <1>7, <1>8, SoftwareEnds

LEMMA OpenImageStep ==
  ASSUME IInv, OpenImage
  PROVE  IInv'
<1>1. RunInv /\ run.pc = "software" /\ run.args.software
  BY DEF IInv, OpenImage, RunInv
<1>2. run' = Process("create_image", run.status, run.args, run.offset, run.soc, Empty)
  BY <1>1, ProcessOf, MakesImage DEF OpenImage
<1>3. Legal("create_image", run.args, run.offset, run.soc)
  BY <1>1, LegalBefore DEF Legal, OpenImage
<1>4. RunInv'
  BY <1>2, <1>3, LegalRun DEF OpenImage
<1>5. run'.pc = "create_image"
  BY <1>2, ProcessFields
<1>6. OutInv' /\ CoreInv' /\ FlashInv'
  BY <1>5, OutSame, CoreSame, FlashSame DEF IInv, OpenImage
<1> QED
  BY <1>4, <1>5, <1>6, NotLoading, GoesOn

(* The image: gateware, nothing, and the software in the last unit. *)
ImageOf(g, s, at) ==
  LET part == GatewareImage(g)
      filled == [k \in 0 .. at |-> IF k \in DOMAIN part THEN part[k] ELSE Empty]
  IN [filled EXCEPT ![at] = s]

Holds(image, g, s, at) ==
  /\ DOMAIN image = 0 .. at
  /\ image[at] = s
  /\ \A k \in 0 .. g.size - 1 : image[k] = GatewareImage(g)[k]
  /\ \A k \in g.size .. at - 1 : image[k] = Empty

LEMMA ImageContents ==
  ASSUME NEW g, g.size \in 1 .. 4, NEW at \in 1 .. 4, g.size <= at, NEW s
  PROVE  Holds(ImageOf(g, s, at), g, s, at)
<1> DEFINE image == ImageOf(g, s, at)
<1> DEFINE part == GatewareImage(g)
           filled == [k \in 0 .. at |-> IF k \in DOMAIN part THEN part[k] ELSE Empty]
<1>1. DOMAIN part = 0 .. g.size - 1
  BY ImageFacts
<1>2. image = [filled EXCEPT ![at] = s]
  BY DEF ImageOf
<1> HIDE DEF part, image
<1>3. DOMAIN filled = 0 .. at
  OBVIOUS
<1>4. \A k \in 0 .. at : filled[k] = IF k \in DOMAIN part THEN part[k] ELSE Empty
  OBVIOUS
<1> HIDE DEF filled
<1>5. DOMAIN image = 0 .. at /\ image[at] = s
      /\ \A k \in 0 .. at - 1 : image[k] = filled[k]
  BY <1>2, <1>3
<1>6. \A k \in 0 .. g.size - 1 : image[k] = part[k]
  BY <1>1, <1>4, <1>5
<1>7. \A k \in g.size .. at - 1 : image[k] = Empty
  BY <1>1, <1>4, <1>5
<1> QED
  BY <1>5, <1>6, <1>7 DEF part, image, Holds

LEMMA CreateImageStep ==
  ASSUME IInv, CreateImage
  PROVE  IInv'
<1> DEFINE at == run.offset - Reserved
           image == ImageOf(out.gateware, SoftwareUnit(App), at)
<1>1. /\ RunInv /\ run.pc = "create_image" /\ run.args.software
      /\ target = "kosagi_fomu" /\ out.bios # None /\ out.gateware # None
  BY DEF IInv, CreateImage, RunInv
<1>2. run.offset = 6 /\ at = 2
  BY <1>1, LegalBefore, OffsetFacts DEF Reserved
<1>3. out.gateware.size \in 1 .. 4 /\ out.gateware.size <= at
  BY <1>1, <1>2 DEF IInv, OutInv, CreateImage, TooLarge
<1>4. run' = Process("program_image", run.status, run.args, run.offset, run.soc, image)
  <2>1. IsProcess(run) /\ run' = [run EXCEPT !.pc = "program_image", !.image = image]
    BY <1>1, ProcessOf DEF CreateImage, ImageOf
  <2> HIDE DEF image
  <2> QED
    BY <2>1, MakesImage
<1>5. /\ DOMAIN image = 0 .. at
      /\ image[at] = SoftwareUnit(App)
      /\ \A k \in 0 .. out.gateware.size - 1 : image[k] = GatewareImage(out.gateware)[k]
      /\ \A k \in out.gateware.size .. at - 1 : image[k] = Empty
  <2> DEFINE g == out.gateware
             s == SoftwareUnit(App)
  <2>1. at \in 1 .. 4 /\ g.size \in 1 .. 4 /\ g.size <= at
    BY <1>2, <1>3
  <2> HIDE DEF at, g, s
  <2>2. Holds(ImageOf(g, s, at), g, s, at)
    BY <2>1, ImageContents
  <2> QED
    BY <2>2 DEF g, s, Holds
<1> HIDE DEF image
<1>6. UNCHANGED <<target, cores, vdir, out, flash>>
  BY DEF CreateImage
<1>7. Legal("program_image", run.args, run.offset, run.soc)
  BY <1>1, <1>6, LegalBefore DEF Legal
<1>8. RunInv'
  BY <1>4, <1>6, <1>7, LegalRun
<1>9. run'.pc = "program_image" /\ run'.image = image /\ run'.offset = run.offset
  BY <1>4, ProcessFields
<1>10. ImageInv'
  <2>1. GatewareImage(out.gateware)' = GatewareImage(out.gateware)
        /\ SoftwareUnit(App)' = SoftwareUnit(App)
        /\ (run.offset - Reserved)' = at /\ Empty' = Empty
    BY <1>6, <1>9 DEF GatewareImage, SoftwareUnit, App, Reserved, Empty
  <2> HIDE DEF at
  <2> QED
    BY <1>3, <1>5, <1>6, <1>9, <2>1 DEF ImageInv
<1>11. BuildInv'
  BY <1>9 DEF BuildInv
<1>12. OutInv' /\ CoreInv' /\ FlashInv'
  BY <1>6, <1>9, OutSame, CoreSame, FlashSame DEF IInv
<1> QED
  BY <1>8, <1>9, <1>10, <1>11, <1>12, GoesOn

(* What a Fomu is programmed with. *)
LEMMA ProgramFacts ==
  ASSUME IInv, run.pc = "program_image"
  PROVE  /\ target = "kosagi_fomu" /\ out.bios # None /\ out.gateware # None
         /\ out.gateware.size \in 1 .. 2
         /\ DOMAIN run.image = 0 .. 2
         /\ run.image[2] = SoftwareUnit(App)
         /\ \A k \in 0 .. out.gateware.size - 1 :
              run.image[k] = GatewareImage(out.gateware)[k]
         /\ \A k \in out.gateware.size .. 1 : run.image[k] = Empty
<1> DEFINE g == out.gateware
           image == run.image
           at == run.offset - Reserved
<1>1. RunInv /\ target = "kosagi_fomu" /\ g # None /\ out.bios # None
  BY DEF IInv, RunInv
<1>2. /\ g.size <= at
      /\ DOMAIN image = 0 .. at
      /\ image[at] = SoftwareUnit(App)
      /\ \A k \in 0 .. g.size - 1 : image[k] = GatewareImage(g)[k]
      /\ \A k \in g.size .. at - 1 : image[k] = Empty
  BY DEF IInv, ImageInv
<1>3. at = 2
  BY <1>1, LegalBefore, OffsetFacts DEF Reserved
<1>4. g.size \in 1 .. 4
  BY <1>1 DEF IInv, OutInv
<1> HIDE DEF at
<1> QED
  BY <1>1, <1>2, <1>3, <1>4

LEMMA ProgramImageStep ==
  ASSUME IInv, ProgramImage
  PROVE  IInv'
<1> DEFINE g == out.gateware
<1>1. /\ run.pc = "program_image" /\ Ends("ok")
      /\ UNCHANGED <<target, cores, vdir, out>>
      /\ flash' = Flashed(4, run.image)
  BY DEF ProgramImage, Reserved
<1>2. RunInv /\ OutInv /\ FlashInv
  BY DEF IInv
<1>3. target = "kosagi_fomu" /\ out.bios # None /\ g # None
  BY <1>1, ProgramFacts
<1>4. /\ FlashInv'
      /\ flash'[6] = SoftwareUnit(App)
      /\ \A k \in 0 .. g.size - 1 : flash'[4 + k] = GatewareImage(g)[k]
  BY <1>1, <1>2, ProgramFacts, FlashImage
<1>5. out.bios.reset = 6 /\ g.reset = 6
  BY <1>2, <1>3, OffsetFacts DEF OutInv
<1>6. DOMAIN GatewareImage(g) = 0 .. g.size - 1
  <2>1. g.size \in 1 .. 4
    BY <1>2, <1>3 DEF OutInv
  <2> QED
    BY <2>1, ImageFacts
<1>7. SoftwareAtReset'
  <2>1. SoftwareUnit(App)' = SoftwareUnit(App)
        /\ GatewareImage(out.gateware)' = GatewareImage(g) /\ Reserved' = 4
    BY <1>1 DEF App, SoftwareUnit, GatewareImage, Reserved
  <2>2. out'.bios.reset = 6 /\ out'.gateware.reset = 6 /\ 6 \in FlashUnits
    BY <1>1, <1>5 DEF FlashUnits
  <2> QED
    BY <1>4, <1>6, <2>1, <2>2 DEF SoftwareAtReset, FlashUnits
<1> QED
  BY <1>1, <1>4, <1>7, SoftwareEnds

LEMMA KilledStep ==
  ASSUME IInv, Killed
  PROVE  IInv'
<1>1. run' = [pc |-> "idle", status |-> "killed"]
      /\ UNCHANGED <<target, cores, vdir, out>>
  BY DEF Killed, Ends
<1>2. FlashInv'
  <2>1. CASE UNCHANGED flash
    BY <1>1, <2>1, FlashSame DEF IInv
  <2>2. CASE /\ target # "kosagi_fomu" /\ out.gateware # None
             /\ flash' = Flashed(0, [GatewareImage(out.gateware) EXCEPT
                                       ![out.gateware.size - 1] = Garbage])
    BY <1>1, <2>2, FlashCutGateware
  <2>3. CASE run.pc = "program_image" /\ flash' = Flashed(4, [k \in {0} |-> Garbage])
    BY <1>1, <2>3, ProgramFacts, FlashCutImage DEF IInv
  <2>4. CASE /\ run.pc = "load_bios" \/ (run.pc = "software" /\ target = "icebreaker")
             /\ flash' = Flashed(run.offset, [k \in {0} |-> Garbage])
    <3>1. RunInv /\ FlashInv
      BY DEF IInv
    <3>2. target = "icebreaker"
      BY <2>4, <3>1 DEF RunInv
    <3>3. run.offset = 3
      BY <2>4, <3>1, <3>2, LegalBefore, OffsetFacts
    <3>4. Garbage.what # "part"
      BY DEF Garbage
    <3> QED
      BY <1>1, <2>4, <3>1, <3>2, <3>3, <3>4, FlashSoftware
  <2> QED
    BY <2>1, <2>2, <2>3, <2>4 DEF Killed, Reserved
<1> QED
  BY <1>1, <1>2, EndsBadly DEF IInv, CoreInv

LEMMA CoreChangesStep ==
  ASSUME IInv, CoreChanges
  PROVE  IInv'
<1>1. UNCHANGED <<target, vdir, out, flash, run>> /\ run.pc = "idle"
  BY DEF CoreChanges
<1>2. DOMAIN cores' = Files
  BY DEF CoreChanges, IInv, CoreInv
<1>3. OutInv' /\ FlashInv'
  BY <1>1, OutSame, FlashSame DEF IInv
<1>4. RunInv'
  <2>1. BiosFlashOffset' = BiosFlashOffset /\ File' = File
    BY <1>1, SameBoard DEF File
  <2>2. RunInv
    BY DEF IInv
  <2> QED
    BY <1>1, <2>1, <2>2 DEF RunInv, SysClkFreq
<1>5. CoreInv'
  BY <1>1, <1>2 DEF IInv, CoreInv
<1>6. BuildInv' /\ ImageInv'
  BY <1>1 DEF BuildInv, ImageInv
<1>7. SoftwareAtReset' /\ OkMeansBuilt'
  BY <1>1 DEF IInv, SoftwareAtReset, OkMeansBuilt, Ok, Ice40, App, SoftwareUnit,
              GatewareImage
<1> QED
  BY <1>3, <1>4, <1>5, <1>6, <1>7 DEF IInv

-----------------------------------------------------------------------------
(* The theorems *)

LEMMA InitInv ==
  ASSUME Init
  PROVE  IInv
<1>1. /\ run.pc = "idle" /\ run.status = "none"
      /\ out.gateware = None /\ out.bios = None
      /\ out = [gateware |-> None, bios |-> None]
  BY DEF Init, Idle
<1>2. OutInv
  BY <1>1 DEF OutInv, Init
<1>3. RunInv
  BY <1>1 DEF RunInv
<1>4. CoreInv
  BY <1>1 DEF CoreInv, Init
<1>5. BuildInv /\ ImageInv /\ SoftwareAtReset /\ OkMeansBuilt
  BY <1>1 DEF BuildInv, ImageInv, SoftwareAtReset, OkMeansBuilt, Ok
<1>6. FlashInv
  BY DEF FlashInv, Init, None
<1> QED
  BY <1>2, <1>3, <1>4, <1>5, <1>6 DEF IInv

LEMMA StutterInv ==
  ASSUME IInv, UNCHANGED vars
  PROVE  IInv'
<1>1. UNCHANGED <<target, cores, vdir, out, flash, run>>
  BY DEF vars
<1>2. OutInv' /\ FlashInv'
  BY <1>1, OutSame, FlashSame DEF IInv
<1>3. BiosFlashOffset' = BiosFlashOffset /\ File' = File
  BY <1>1, SameBoard DEF File
<1>4. RunInv'
  BY <1>1, <1>3 DEF IInv, RunInv, SysClkFreq
<1>5. CoreInv'
  BY <1>1, <1>3 DEF IInv, CoreInv
<1>6. BuildInv'
  BY <1>1 DEF IInv, BuildInv, SysClkFreq, GatewareImage
<1>7. ImageInv'
  BY <1>1 DEF IInv, ImageInv, Reserved, SoftwareUnit, App, GatewareImage
<1>8. SoftwareAtReset' /\ OkMeansBuilt'
  BY <1>1 DEF IInv, SoftwareAtReset, OkMeansBuilt, Ok, Ice40, App, SoftwareUnit,
              GatewareImage
<1> QED
  BY <1>2, <1>4, <1>5, <1>6, <1>7, <1>8 DEF IInv

LEMMA NextInv ==
  ASSUME IInv, [Next]_vars
  PROVE  IInv'
<1>1. CASE Start
  BY <1>1, StartStep
<1>2. CASE Construct
  BY <1>2, ConstructStep
<1>3. CASE ConstructRaises \/ MakeRaises \/ GenerateFails \/ SynthesisFails
           \/ LoadRaises \/ SoftwareRaises \/ CreateImageRaises
  BY <1>3, RaisesStep
<1>4. CASE MakeKnown \/ MakeExits \/ MakeGenerated
  BY <1>4, MakeKnownStep, MakeExitsStep, MakeGeneratedStep
<1>5. CASE CopyCore \/ Compile \/ Synthesize
  BY <1>5, CopyCoreStep, CompileStep, SynthesizeStep
<1>6. CASE LoadNothing \/ LoadGateware \/ LoadBios
  BY <1>6, LoadNothingStep, LoadGatewareStep, LoadBiosStep
<1>7. CASE SoftwareNothing \/ SoftwareIcebreaker \/ OpenImage
  BY <1>7, SoftwareNothingStep, SoftwareIcebreakerStep, OpenImageStep
<1>8. CASE CreateImage \/ ProgramImage
  BY <1>8, CreateImageStep, ProgramImageStep
<1>9. CASE Killed \/ CoreChanges
  BY <1>9, KilledStep, CoreChangesStep
<1>10. CASE UNCHANGED vars
  BY <1>10, StutterInv
<1> QED
  BY <1>1, <1>2, <1>3, <1>4, <1>5, <1>6, <1>7, <1>8, <1>9, <1>10, Zenon
     DEF Next, Make, Build, Load, SoftwareLoad

(* The inductive invariant: the output directory agrees with the board, a  *)
(* run knows what it has made, and gateware in flash is whole, cut or      *)
(* overwritten by the software behind it, after any sequence of runs.      *)
THEOREM InductiveInvariant == Spec => []IInv
<1>1. Init => IInv
  BY InitInv
<1>2. IInv /\ [Next]_vars => IInv'
  BY NextInv
<1> QED
  BY <1>1, <1>2, PTL DEF Spec

(* icebreaker.py and kosagi_fomu.py, software_load: software loaded by a   *)
(* run that ends well is where the CPU it was compiled for starts, with    *)
(* all of the gateware before it on the Fomu.                              *)
THEOREM SoftwareWhereItStarts == Spec => []SoftwareAtReset
<1>1. IInv => SoftwareAtReset
  BY DEF IInv
<1> QED
  BY <1>1, InductiveInvariant, PTL

(* common_soc.py, main, and run of general.py: a status of zero means that *)
(* what was to be built was, and was loaded if it was to be.               *)
THEOREM ZeroMeansBuilt == Spec => []OkMeansBuilt
<1>1. IInv => OkMeansBuilt
  BY DEF IInv
<1> QED
  BY <1>1, InductiveInvariant, PTL

(* What the invariant of the flash says of gateware that was not cut.      *)
LEMMA WholeInFlash ==
  ASSUME FlashInv
  PROVE  GatewareWhole
<1>1. SUFFICES ASSUME NEW u \in FlashUnits,
                      flash[u].what = "part", flash[u].k = 0,
                      \A k \in DOMAIN GatewareImage(flash[u].of) :
                        flash[u + k] # Garbage,
                      target = "icebreaker" => flash[u].of.size <= BiosFlashOffset
               PROVE  \A k \in DOMAIN GatewareImage(flash[u].of) :
                        flash[u + k] = GatewareImage(flash[u].of)[k]
  BY DEF GatewareWhole
<1> DEFINE g == flash[u].of
<1>2. /\ u = GatewareUnit
      /\ g.size \in 1 .. 4
      /\ \/ \A k \in 0 .. g.size - 1 : flash[u + k] = GatewareImage(g)[k]
         \/ \E k \in 0 .. g.size - 1 : flash[u + k] = Garbage
         \/ target = "icebreaker" /\ g.size > BiosFlashOffset
  BY <1>1 DEF FlashInv
<1> HIDE DEF g
<1>3. DOMAIN GatewareImage(g) = 0 .. g.size - 1
  BY <1>2, ImageFacts
<1>4. ~(target = "icebreaker" /\ g.size > BiosFlashOffset)
  BY <1>1, <1>2, OffsetFacts DEF g
<1>5. \A k \in 0 .. g.size - 1 : flash[u + k] # Garbage
  BY <1>1, <1>3 DEF g
<1>6. \A k \in 0 .. g.size - 1 : flash[u + k] = GatewareImage(g)[k]
  BY <1>2, <1>4, <1>5
<1> QED
  BY <1>3, <1>6 DEF g

(* general.py, load, and create_image of kosagi_fomu.py: gateware on a     *)
(* board is whole after every run, of whatever size, whatever is loaded    *)
(* behind it and however that is cut, unless programming it was cut, or    *)
(* the gateware of an iCEbreaker reaches the software.                     *)
THEOREM GatewareStaysWhole == Spec => []GatewareWhole
<1>1. IInv => GatewareWhole
  BY WholeInFlash DEF IInv
<1> QED
  BY <1>1, InductiveInvariant, PTL

(* patch_cpu_variant.py, copy_cpu_variant_if_needed: a core of the         *)
(* repository is built as it is, however old the copy that LiteX has.      *)
THEOREM LatestCore == Spec => UsesLatestCore
<1>1. ASSUME IInv, [Next]_vars, out'.gateware # out.gateware, cores[File] # NoCore
      PROVE  out'.gateware.core = cores[File]
  <2>1. Synthesize
    <3>1. CASE Compile
      BY <1>1, <3>1 DEF Compile, IInv, OutInv
    <3>2. CASE out' = out
      BY <1>1, <3>2
    <3>3. Synthesize \/ Compile \/ out' = out
      BY <1>1, Zenon DEF Next, Make, Build, Load, SoftwareLoad, Start, ConstructRaises,
         Construct, MakeKnown, MakeExits, MakeRaises, MakeGenerated, GenerateFails,
         CopyCore, SynthesisFails, LoadNothing, LoadRaises, LoadGateware, LoadBios,
         SoftwareNothing, SoftwareRaises, SoftwareIcebreaker, OpenImage,
         CreateImageRaises, CreateImage, ProgramImage, Killed, CoreChanges, vars
    <3> QED
      BY <3>1, <3>2, <3>3
  <2>2. out'.gateware.core = vdir[File]
    BY <2>1 DEF Synthesize, IInv, OutInv
  <2>3. vdir[File] = cores[File]
    BY <1>1, <2>1 DEF Synthesize, IInv, CoreInv
  <2> QED
    BY <2>2, <2>3
<1>2. IInv /\ [Next]_vars
        => [out'.gateware # out.gateware /\ cores[File] # NoCore
              => out'.gateware.core = cores[File]]_vars
  BY <1>1
<1> QED
  BY <1>2, InductiveInvariant, PTL DEF Spec, UsesLatestCore

-----------------------------------------------------------------------------
(* The cores *)

(* What a parameter is: the one given, or the default. *)
LEMMA ParamFacts ==
  ASSUME NEW v \in Variants, NEW p \in {"mulDiv", "hardwareDiv", "dCacheSize"}
  PROVE  /\ \A given \in v.params : given[1] = p => CpuParams(v)[p] = given[2]
         /\ (\A given \in v.params : given[1] # p) => CpuParams(v)[p] = DefaultParams[p]
<1>1. p \in DOMAIN DefaultParams /\ p # "cfu"
  BY DEF DefaultParams
<1>2. CpuParams(v)[p] =
        CASE \E given \in v.params : given[1] = p ->
               (CHOOSE given \in v.params : given[1] = p)[2]
          [] p = "cfu" /\ v.cfu -> "true"
          [] OTHER -> DefaultParams[p]
  BY <1>1 DEF CpuParams
<1>3. CASE \A given \in v.params : given[1] # p
  BY <1>1, <1>2, <1>3
<1>4. CASE \E given \in v.params : given[1] = p
  <2>1. PICK given \in v.params : given[1] = p
    BY <1>4
  <2>2. \A other \in v.params : other[1] = p => other = given
    BY <2>1, WorkflowAssumption
  <2>3. (CHOOSE other \in v.params : other[1] = p) = given
    BY <2>1, <2>2
  <2>4. CpuParams(v)[p] = given[2]
    BY <1>1, <1>2, <1>4, <2>3
  <2> QED
    BY <2>1, <2>2, <2>4
<1> QED
  BY <1>3, <1>4

(* The fields of the two records. *)
LEMMA FlagsOf ==
  ASSUME NEW v
  PROVE  /\ GccFlags(v).mul =
              IF Generated(v) THEN CpuParams(v).mulDiv # "false" ELSE v.name # "minimal"
         /\ GccFlags(v).div =
              IF Generated(v)
              THEN CpuParams(v).mulDiv # "false" /\ CpuParams(v).hardwareDiv # "false"
              ELSE v.name # "minimal" /\ ~HasDivNot(v)
  BY Zenon DEF GccFlags

LEMMA CoreHas ==
  ASSUME NEW o
  PROVE  /\ GenCoreDefault(o).mul = (o.mulDiv = "true")
         /\ GenCoreDefault(o).div = (o.mulDiv = "true" /\ o.hardwareDiv = "true")
         /\ GenCoreDefault(o).dcache = (o.dCacheSize # "0")
  BY Zenon DEF GenCoreDefault

(* The flags of the compiler and the core are made from a variant, the one *)
(* by patch_cpu_variant.py, the other by GenCoreDefault or by the Makefile.*)
LEMMA FlagsAndCore ==
  ASSUME NEW v \in Supported
  PROVE  LET core == CoreOf(CoreFile(v))
         IN /\ GccFlags(v).mul => core.mul
            /\ GccFlags(v).div => core.div
            /\ HasDcacheConfig(v) <=> core.dcache
<1>1. CASE Generated(v)
  <2>1. CoreOf(CoreFile(v)) = GenCoreDefault(CpuParams(v))
    BY <1>1 DEF CoreOf, CoreFile
  <2>2. v \in Variants /\ v.name = "generate"
    BY <1>1 DEF Generated, Supported, Fomu, Variant
  <2>3. \A given \in v.params :
          /\ given = <<given[1], given[2]>>
          /\ given[1] \in {"mulDiv", "hardwareDiv"} => given[2] \in {"true", "false"}
    BY <2>2, WorkflowAssumption
  <2>4. CpuParams(v).mulDiv \in {"true", "false"}
        /\ CpuParams(v).hardwareDiv \in {"true", "false"}
    BY <2>2, <2>3, ParamFacts DEF DefaultParams
  <2>5. CpuParams(v).dCacheSize # "0" <=> <<"dCacheSize", "0">> \notin v.params
    <3>1. CASE \E given \in v.params : given[1] = "dCacheSize"
      <4>1. PICK given \in v.params : given[1] = "dCacheSize"
        BY <3>1
      <4>2. CpuParams(v).dCacheSize = given[2]
        BY <2>2, <4>1, ParamFacts
      <4>3. given = <<"dCacheSize", given[2]>>
        BY <2>3, <4>1
      <4>4. \A other \in v.params : other[1] = "dCacheSize" => other = given
        BY <2>2, <4>1, WorkflowAssumption
      <4> QED
        BY <4>1, <4>2, <4>3, <4>4
    <3>2. CASE \A given \in v.params : given[1] # "dCacheSize"
      <4>1. CpuParams(v).dCacheSize = "4096"
        BY <2>2, <3>2, ParamFacts DEF DefaultParams
      <4> QED
        BY <3>2, <4>1
    <3> QED
      BY <3>1, <3>2
  <2>6. /\ CpuParams(v).mulDiv # "false" <=> CpuParams(v).mulDiv = "true"
        /\ CpuParams(v).hardwareDiv # "false" <=> CpuParams(v).hardwareDiv = "true"
        /\ ~HasDivNot(v) /\ v.name # "minimal"
    BY <2>2, <2>4 DEF HasDivNot
  <2> QED
    BY <1>1, <2>1, <2>5, <2>6, FlagsOf, CoreHas, Zenon DEF HasDcacheConfig
<1>2. CASE ~Generated(v)
  <2>1. CoreOf(CoreFile(v)) = GenCoreDefault(MakefileOptions(v.name))
    BY <1>2 DEF CoreOf, CoreFile
  <2> DEFINE o == MakefileOptions(v.name)
  <2>2. /\ o.mulDiv = "true" <=> v.name # "minimal"
        /\ o.hardwareDiv = "true" <=> ~HasDivNot(v)
        /\ o.dCacheSize # "0" <=> ~HasDivNot(v) /\ v.name # "minimal"
    BY DEF MakefileOptions, HasDivNot
  <2> HIDE DEF o
  <2>3. CoreOf(CoreFile(v)) = GenCoreDefault(o)
    BY <2>1 DEF o
  <2> QED
    BY <1>2, <2>2, <2>3, FlagsOf, CoreHas, Zenon DEF HasDcacheConfig
<1> QED
  BY <1>1, <1>2

LEMMA CoreContentsInit ==
  ASSUME Init
  PROVE  CoreContents
<1>1. \A f \in Files : /\ IsCoreOf(f, cores[f]) /\ IsCoreOf(f, vdir[f])
                       /\ f \in Shipped => IsCore(cores[f])
  <2>1. ASSUME NEW f \in Files
        PROVE  /\ IsCoreOf(f, cores[f]) /\ IsCoreOf(f, vdir[f])
               /\ f \in Shipped => IsCore(cores[f])
    <3>1. /\ cores[f] = IF f \in Shipped THEN NewCore(MakefileOptions(f.name))
                        ELSE NoCore
          /\ vdir[f] \in {LitexCore, NoCore}
      BY DEF Init
    <3>2. ASSUME f \in Shipped
          PROVE  f.of = "repository"
      <4>1. PICK w : InRepository(w) /\ f = CoreFile(w)
        BY <3>2 DEF Shipped
      <4>2. w.name # "generate"
        BY <4>1 DEF InRepository, Known, LitexNames, PatchedNames
      <4> QED
        BY <4>1, <4>2 DEF CoreFile, Generated
    <3> QED
      BY <3>1, <3>2 DEF IsCoreOf, IsCore, NewCore, NoCore, LitexCore, CoreOf
  <2> QED
    BY <2>1
<1> QED
  BY <1>1 DEF CoreContents, Init, Idle

(* The cores are left alone by most steps. *)
LEMMA CoreContentsSame ==
  ASSUME CoreContents, UNCHANGED <<cores, vdir>>, out'.gateware = out.gateware,
         out'.bios = out.bios \/ out'.bios.variant \in Supported,
         run'.pc # "idle" => run'.args.variant \in Supported
  PROVE  CoreContents'
  BY DEF CoreContents, IsCoreOf, None

LEMMA CoreContentsFrom ==
  ASSUME CoreContents,
         \A f \in Files : /\ IsCoreOf(f, cores'[f]) /\ IsCoreOf(f, vdir'[f])
                          /\ f \in Shipped => IsCore(cores'[f]),
         out'.bios = out.bios,
         \/ out'.gateware = out.gateware
         \/ IsCoreOf(CoreFile(out'.gateware.variant), out'.gateware.core),
         run'.pc # "idle" => run'.args = run.args /\ run.pc # "idle"
  PROVE  CoreContents'
  BY DEF CoreContents, None

LEMMA CoreContentsStep ==
  ASSUME IInv, CoreContents, [Next]_vars
  PROVE  CoreContents'
<1>1. RunInv /\ CoreInv /\ OutInv
  BY DEF IInv
<1>2. CASE Start
  <2>1. run'.args.variant \in Supported
    <3>1. PICK a \in Arguments : run' = Process("parsed", "running", a, 0, None, None)
      BY <1>2 DEF Start, Process
    <3>2. run'.args = a
      BY <3>1, ProcessFields
    <3> QED
      BY <3>2 DEF Arguments, Supported
  <2> QED
    BY <1>2, <2>1, CoreContentsSame DEF Start
<1>3. CASE Construct
  <2>1. run.pc = "parsed" /\ run.args.variant \in Variants
    BY <1>1, <1>3 DEF Construct, RunInv
  <2>2. VariantFor(run.args.variant) \in Supported
    <3>1. run.args.variant.cfu \in BOOLEAN
      BY <2>1, WorkflowAssumption
    <3> QED
      BY <2>1, <3>1 DEF VariantFor, Supported
  <2>3. run'.args = [run.args EXCEPT !.variant = VariantFor(run.args.variant)]
    <3>1. run' = Process(IF run.args.software THEN "software" ELSE "make", run.status,
                        [run.args EXCEPT !.variant = VariantFor(run.args.variant)],
                        BiosFlashOffset, run.soc, run.image)
      BY <1>1, <1>3, <2>1, ProcessOf, Constructs
    <3> QED
      BY <3>1, ProcessFields
  <2>4. run'.args.variant = VariantFor(run.args.variant)
    BY <1>1, <2>1, <2>3, ProcessOf
  <2> QED
    BY <1>3, <2>2, <2>4, CoreContentsSame DEF Construct
<1>4. CASE run'.pc = "idle" /\ UNCHANGED <<cores, vdir, out>>
  BY <1>4, CoreContentsSame
<1>5. CASE run.pc # "idle" /\ run'.args = run.args /\ UNCHANGED <<cores, vdir, out>>
  BY <1>5, CoreContentsSame DEF CoreContents
<1>6. CASE MakeGenerated
  <2> DEFINE v == run.args.variant
  <2>1. run' = Process("copy", run.status, run.args, run.offset,
                       [what |-> "soc", variant |-> run.args.variant,
                        reset |-> run.offset, freq |-> SysClkFreq], run.image)
    BY <1>1, <1>6, ProcessOf, MakesSoC DEF MakeGenerated
  <2>2. run'.args = run.args /\ run.pc # "idle"
    BY <1>6, <2>1, ProcessFields DEF MakeGenerated
  <2>3. File \in Files /\ File = CoreFile(v)
    BY <1>1, <2>2, ProcessOf DEF File
  <2>4. CoreOf(File) = GenCoreDefault(CpuParams(v))
    BY <1>6, <2>3 DEF MakeGenerated, CoreFile, CoreOf
  <2>5. IsCoreOf(File, NewCore(CpuParams(v)))
    BY <2>4 DEF IsCoreOf, NewCore
  <2>6. \A f \in Files :
          /\ cores'[f] = cores[f] \/ (/\ f = File /\ cores[f] = NoCore
                                      /\ cores'[f] = NewCore(CpuParams(v)))
          /\ vdir'[f] = vdir[f] \/ vdir'[f] = cores'[f]
    BY <1>1, <1>6, <2>3 DEF MakeGenerated, CoreInv
  <2>7. \A f \in Files : IsCoreOf(f, cores'[f])
    BY <2>5, <2>6 DEF CoreContents
  <2>8. \A f \in Files : IsCoreOf(f, vdir'[f])
    BY <2>6, <2>7 DEF CoreContents
  <2>9. \A f \in Files : f \in Shipped => IsCore(cores'[f])
    BY <2>6 DEF CoreContents, IsCore, NoCore
  <2> QED
    BY <1>6, <2>2, <2>7, <2>8, <2>9, CoreContentsFrom DEF MakeGenerated
<1>7. CASE GenerateFails
  <2>1. run'.pc = "idle" /\ UNCHANGED <<vdir, out>> /\ cores[File] = NoCore
    BY <1>7 DEF GenerateFails, Ends
  <2>2. \A f \in Files :
          cores'[f] = cores[f] \/ (cores[f] = NoCore /\ cores'[f] \in {NoCore, PartOfCore})
    BY <1>1, <1>7 DEF GenerateFails, CoreInv
  <2>3. ~IsCore(NoCore) /\ ~IsCore(PartOfCore)
    BY DEF IsCore, NoCore, PartOfCore
  <2>4. \A f \in Files : IsCoreOf(f, cores'[f]) /\ IsCoreOf(f, vdir'[f])
    BY <2>1, <2>2, <2>3 DEF CoreContents, IsCoreOf
  <2>5. \A f \in Files : f \in Shipped => IsCore(cores'[f])
    BY <2>2, <2>3 DEF CoreContents
  <2> QED
    BY <2>1, <2>4, <2>5, CoreContentsFrom
<1>8. CASE CopyCore
  <2>1. run' = Process("compile", run.status, run.args, run.offset, run.soc, run.image)
    BY <1>1, <1>8, ProcessOf, StepsTo DEF CopyCore
  <2>2. run'.args = run.args /\ run.pc # "idle" /\ UNCHANGED <<cores, out>>
    BY <1>8, <2>1, ProcessFields DEF CopyCore
  <2>3. File \in Files
    BY <1>1, <2>2, ProcessOf
  <2>4. \A f \in Files : vdir'[f] = vdir[f] \/ vdir'[f] = cores[f]
    BY <1>1, <1>8, <2>3 DEF CopyCore, CoreInv
  <2>5. \A f \in Files : IsCoreOf(f, vdir'[f])
    BY <2>4 DEF CoreContents
  <2> QED
    BY <2>2, <2>5, CoreContentsFrom DEF CoreContents
<1>9. CASE Compile
  <2>1. run'.args = run.args /\ run.pc # "idle"
    <3>1. PICK p \in {"synthesize", "load"} : run' = [run EXCEPT !.pc = p]
      BY <1>9 DEF Compile
    <3>2. IsProcess(run)
      BY <1>1, <1>9, ProcessOf DEF Compile
    <3>3. run' = Process(p, run.status, run.args, run.offset, run.soc, run.image)
      BY <3>1, <3>2, StepsTo
    <3> QED
      BY <1>9, <3>3, ProcessFields DEF Compile
  <2>2. run.soc.variant = run.args.variant
    BY <1>1, <1>9 DEF Compile, RunInv
  <2>3. run.args.variant \in Supported
    BY <2>1 DEF CoreContents
  <2>4. out'.gateware = out.gateware
        /\ (out'.bios = out.bios \/ out'.bios.variant = run.soc.variant)
    BY <1>1, <1>9 DEF Compile, OutInv
  <2> QED
    BY <1>9, <2>1, <2>2, <2>3, <2>4, CoreContentsSame DEF Compile
<1>10. CASE Synthesize
  <2>1. run' = Process("load", run.status, run.args, run.offset, run.soc, run.image)
    BY <1>1, <1>10, ProcessOf, StepsTo DEF Synthesize
  <2>2. run'.args = run.args /\ run.pc # "idle" /\ UNCHANGED <<cores, vdir>>
    BY <1>10, <2>1, ProcessFields DEF Synthesize
  <2>3. File \in Files /\ File = CoreFile(run.args.variant)
    BY <1>1, <2>2, ProcessOf DEF File
  <2>4. run.soc.variant = run.args.variant
    BY <1>1, <1>10 DEF Synthesize, RunInv
  <2>5. /\ out'.bios = out.bios
        /\ out'.gateware.variant = run.soc.variant
        /\ out'.gateware.core = vdir[File]
    BY <1>1, <1>10 DEF Synthesize, OutInv
  <2>6. IsCoreOf(CoreFile(out'.gateware.variant), out'.gateware.core)
    BY <2>3, <2>4, <2>5 DEF CoreContents
  <2> QED
    BY <2>2, <2>5, <2>6, CoreContentsFrom DEF CoreContents
<1>11. CASE CoreChanges
  <2>1. UNCHANGED <<vdir, out, run>> /\ run'.pc = "idle"
    BY <1>11 DEF CoreChanges
  <2>2. PICK g \in Shipped : cores' = [cores EXCEPT ![g].rev = "v2"]
    BY <1>11 DEF CoreChanges
  <2>3. g \in Files
    BY DEF Shipped, Files
  <2>4. cores[g] = [rev |-> cores[g].rev, has |-> CoreOf(g)]
    BY <2>3 DEF CoreContents, IsCoreOf
  <2>5. cores'[g] = [rev |-> "v2", has |-> CoreOf(g)]
    BY <1>1, <2>2, <2>3, <2>4 DEF CoreInv
  <2>6. \A f \in Files : f # g => cores'[f] = cores[f]
    BY <1>1, <2>2 DEF CoreInv
  <2>7. IsCore(cores'[g]) /\ IsCoreOf(g, cores'[g])
    BY <2>5 DEF IsCore, IsCoreOf
  <2>8. \A f \in Files : IsCoreOf(f, cores'[f]) /\ (f \in Shipped => IsCore(cores'[f]))
    BY <2>6, <2>7 DEF CoreContents
  <2> QED
    BY <2>1, <2>8, CoreContentsFrom DEF CoreContents
<1>12. CASE UNCHANGED vars
  BY <1>12, CoreContentsSame DEF vars, CoreContents
<1>13. CASE MakeKnown \/ OpenImage \/ CreateImage \/ LoadGateware
  <2>1. run.pc # "idle" /\ IsProcess(run) /\ UNCHANGED <<cores, vdir, out>>
    BY <1>1, <1>13, ProcessOf
       DEF MakeKnown, OpenImage, CreateImage, LoadGateware, Loads
  <2>2. run'.pc = "idle" \/ run'.args = run.args
    <3>1. CASE Made
      BY <2>1, <3>1, MakesSoC, ProcessFields
    <3>2. CASE \E p, i : run' = [run EXCEPT !.pc = p, !.image = i]
      <4>1. PICK p, i : run' = [run EXCEPT !.pc = p, !.image = i]
        BY <3>2
      <4>2. run' = Process(p, run.status, run.args, run.offset, run.soc, i)
        BY <2>1, <4>1, MakesImage
      <4> QED
        BY <4>2, ProcessFields
    <3>3. CASE run' = [run EXCEPT !.pc = "load_bios"]
      BY <2>1, <3>3, StepsTo, ProcessFields
    <3>4. CASE Ends("ok")
      BY <2>1, <3>4, IsDone, ProcessFields
    <3> QED
      BY <1>13, <3>1, <3>2, <3>3, <3>4
         DEF MakeKnown, OpenImage, CreateImage, LoadGateware
  <2> QED
    BY <1>4, <1>5, <2>1, <2>2
<1>14. CASE ConstructRaises \/ MakeExits \/ MakeRaises \/ SynthesisFails \/ LoadNothing
            \/ LoadRaises \/ LoadBios \/ SoftwareNothing \/ SoftwareRaises
            \/ SoftwareIcebreaker \/ CreateImageRaises \/ ProgramImage \/ Killed
  <2>1. /\ run.pc # "idle" /\ UNCHANGED <<cores, vdir, out>>
        /\ Ends("ok") \/ Ends("raised") \/ Ends("killed")
    BY <1>14 DEF ConstructRaises, MakeExits, MakeRaises, SynthesisFails, LoadNothing,
       LoadRaises, LoadBios, SoftwareNothing, SoftwareRaises, SoftwareIcebreaker,
       CreateImageRaises, ProgramImage, Killed,
       Loads
  <2>2. CASE Ends("ok")
    BY <1>1, <1>4, <2>1, <2>2, ProcessOf, IsDone, ProcessFields
  <2>3. CASE Ends("raised") \/ Ends("killed")
    BY <1>4, <2>1, <2>3 DEF Ends
  <2> QED
    BY <2>1, <2>2, <2>3
<1> QED
  BY <1>2, <1>3, <1>6, <1>7, <1>8, <1>9, <1>10, <1>11, <1>12, <1>13, <1>14, Zenon
     DEF Next, Make, Build, Load, SoftwareLoad

(* patch_cpu_variant.py, its tables and the flags it makes of a variant:   *)
(* they never ask for more than the core has that the gateware beside the  *)
(* software was built with, whichever run made that core, after any        *)
(* sequence of runs, failures and kills.                                   *)
THEOREM CompilesForItsCore == Spec => []RunsOnItsCore
<1>1. Init => IInv /\ CoreContents
  BY InitInv, CoreContentsInit
<1>2. IInv /\ CoreContents /\ [Next]_vars => (IInv /\ CoreContents)'
  BY NextInv, CoreContentsStep
<1>3. CoreContents => RunsOnItsCore
  <2>1. SUFFICES ASSUME CoreContents,
                        out.bios # None, out.gateware # None,
                        out.gateware.variant = out.bios.variant,
                        IsCore(out.gateware.core)
                 PROVE  LET flags == GccFlags(out.bios.variant)
                            core == out.gateware.core.has
                        IN /\ flags.mul => core.mul
                           /\ flags.div => core.div
                           /\ HasDcacheConfig(out.bios.variant) <=> core.dcache
    BY DEF RunsOnItsCore
  <2>2. /\ out.bios.variant \in Supported
        /\ out.gateware.core.has = CoreOf(CoreFile(out.bios.variant))
    BY <2>1 DEF CoreContents, IsCoreOf
  <2> QED
    BY <2>2, FlagsAndCore
<1> QED
  BY <1>1, <1>2, <1>3, PTL DEF Spec
=============================================================================
