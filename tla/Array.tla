------------------------------- MODULE Array --------------------------------
(* The dynamic array of array.c: mem, of which allocated == Len(mem) bytes    *)
(* are owned and used are in use.  A call gives the array and its result; ok  *)
(* says whether realloc() succeeds.  size_t wraps around at SIZE.             *)
EXTENDS Integers, Sequences

CONSTANT SIZE      \* SIZE_MAX + 1

ASSUME ArrayAssumption == SIZE \in Nat /\ SIZE > 1

array_init == [mem |-> <<>>, used |-> 0]
Result(a, res) == [a |-> a, res |-> res]
allocated(a) == Len(a.mem)

\* does the product fit a size_t?
safemult_sizet(a, b) == b = 0 \/ ((a * b) % SIZE) \div b = a

\* a grown array is zeroed from used on, and all of it is in use
array_alloc(a, size, pos, ok) ==
    LET n == (pos + 1) % SIZE
        alloc == (size * n) % SIZE
    IN IF n = 0 \/ ~safemult_sizet(size, n) THEN Result(a, FALSE)
       ELSE IF allocated(a) >= alloc THEN Result(a, TRUE)
       ELSE IF ~ok THEN Result(a, FALSE)
       ELSE Result([mem |-> [i \in 1 .. alloc |-> IF i <= a.used THEN a.mem[i] ELSE "0"],
                    used |-> alloc], TRUE)

array_length(a, size) == IF a.mem = <<>> THEN 0 ELSE a.used \div size

\* Mutant of array_catb: no room for a NUL byte is kept behind the data.
array_catb_Tight(a, src, ok) ==
    LET tmp == (a.used + Len(src)) % SIZE
        new == array_alloc(a, 1, tmp - 1, ok)
    IN IF src = <<>> THEN Result(a, TRUE)
       ELSE IF tmp < a.used \/ tmp < Len(src) \/ ~new.res THEN Result(a, FALSE)
       ELSE Result([mem |-> [i \in 1 .. allocated(new.a) |->
                               IF i \in a.used + 1 .. tmp THEN src[i - a.used] ELSE new.a.mem[i]],
                    used |-> tmp], TRUE)

array_catb(a, src, ok) ==
    LET tmp == (a.used + Len(src)) % SIZE
        new == array_alloc(a, 1, tmp, ok)
    IN IF src = <<>> THEN Result(a, TRUE)
       ELSE IF tmp < a.used \/ tmp < Len(src) \/ ~new.res THEN Result(a, FALSE)
       ELSE Result([mem |-> [i \in 1 .. allocated(new.a) |->
                               IF i \in a.used + 1 .. tmp THEN src[i - a.used] ELSE new.a.mem[i]],
                    used |-> tmp], TRUE)

array_trunc(a) == [a EXCEPT !.used = 0]

array_copyb(a, src, ok) == array_catb(array_trunc(a), src, ok)

array_cat0_temporary(a, ok) ==
    LET new == array_alloc(a, 1, a.used, ok)
    IN IF new.res THEN Result([new.a EXCEPT !.mem[a.used + 1] = "0"], TRUE) ELSE Result(a, FALSE)

\* the position of element pos, or 0 for NULL
array_get(a, size, pos) ==
    LET n == (pos + 1) % SIZE
    IN IF n = 0 \/ a.mem = <<>> \/ ~safemult_sizet(n, size) \/ allocated(a) < (n * size) % SIZE
       THEN 0 ELSE ((pos * size) % SIZE) + 1

array_free(a) == array_init

array_moveleft(a, size, pos) ==
    LET n == size * pos
    IN IF ~safemult_sizet(size, pos) THEN [a EXCEPT !.used = 0]
       ELSE IF n = 0 THEN a
       ELSE IF a.used <= n THEN [a EXCEPT !.used = 0]
       ELSE [mem |-> [i \in 1 .. allocated(a) |->
                        IF i <= a.used - n THEN a.mem[i + n] ELSE a.mem[i]],
             used |-> a.used - n]
=============================================================================
