---------------------------- MODULE Distributions ----------------------------
(***************************************************************************)
(* The workload distributions of rnd/fkvb_rnd.hh and the factory          *)
(* init_rnd_gen (FKVB.cc) that builds one from a distribution option.     *)
(* An option is given as parsed: [kind, a, b] for "uniform",              *)
(* "uniform<a>_<b>", "zipf<a>_<b>", "const<a>", or any other string       *)
(* (kind "other").  An io_pattern is [type, beg, end]; Draws(p) is the    *)
(* set of values its next() can return.  size_t arithmetic is modulo      *)
(* SizeT, a stand-in for 2^64.                                            *)
(***************************************************************************)
EXTENDS Naturals

CONSTANT SizeT

\* FATAL in init_rnd_gen: the process exits, no generator.
Fatal == [type |-> "fatal", beg |-> 0, end |-> 0]

\* The constructors io_pattern(size_t e, size_t b): "_beg(b), _end(e)".
IoPattern(type, e, b) == [type |-> type, beg |-> b % SizeT, end |-> e % SizeT]

\* Mutant: randn rounding up, "max * drand() + 0.5".
RandnRounded(max) == 0 .. max

\* rand48::randn(max) = max * drand(), with drand() = k / 2^48 for the
\* 48-bit state k: every value below max, and 0 when max is 0.
Randn(max) == IF max = 0 THEN {0} ELSE 0 .. (max - 1)

\* zipfian::next clamps z to _max_id - 1, which wraps when _max_id is 0.
ZipfRange(n) == IF n = 0 THEN {SizeT - 1} ELSE 0 .. (n - 1)

\* "_end - _beg" in size_t.
Span(p) == (p.end + SizeT - p.beg) % SizeT

\* next() of rand_io_pattern ("_beg + _rng.randn(_end - _beg)"),
\* const_io_pattern ("_beg") and zipf_io_pattern ("_beg + _rng()").
Draws(p) ==
    CASE p.type = "rand"  -> {(p.beg + r) % SizeT : r \in Randn(Span(p))}
      [] p.type = "const" -> {p.beg}
      [] p.type = "zipf"  -> {(p.beg + z) % SizeT : z \in ZipfRange(Span(p))}
      [] OTHER            -> {}

\* init_rnd_gen: "uniform" exactly is rand_io_pattern(num_keys, 0);
\* "uniform<lower>_<higher>" FATALs when lower > higher and otherwise is
\* rand_io_pattern(lower, higher); "zipf<hot>_<perc>" is
\* zipf_io_pattern(num_keys, 0, skew); "const<n>" is const_io_pattern(n, n);
\* anything else FATALs.  The skew only shapes the zipf draw's
\* probabilities, not its range.
InitRndGen(opt, numKeys) ==
    CASE opt.kind = "uniform"   -> IoPattern("rand", numKeys, 0)
      [] opt.kind = "uniform_b" -> IF opt.a > opt.b THEN Fatal
                                   ELSE IoPattern("rand", opt.a, opt.b)
      [] opt.kind = "zipf"      -> IoPattern("zipf", numKeys, 0)
      [] opt.kind = "const"     -> IoPattern("const", opt.a, opt.a)
      [] OTHER                  -> Fatal

\* Reference (spec, Distribution): the draws of an option lie in
\* [lower, upper): [0, num_keys) for "uniform" and "zipf", [a, b) for a
\* bounded uniform, and a constant returns its value.
Allowed(opt, numKeys) ==
    CASE opt.kind \in {"uniform", "zipf"} -> 0 .. (numKeys - 1)
      [] opt.kind = "uniform_b"           -> opt.a .. (opt.b - 1)
      [] opt.kind = "const"               -> {opt.a}
      [] OTHER                            -> {}
=============================================================================
