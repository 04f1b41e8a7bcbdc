--------------------------------- MODULE Buffer ---------------------------------
(***************************************************************************)
(* The growing buffers of src/kcgi.c (kcgi_buf_write and its callers): the *)
(* bytes in one, the size it believes it has and the size of the memory it *)
(* points to.                                                              *)
(***************************************************************************)
EXTENDS CString

CONSTANT GrowSize     \* growsz, or 1024 if that is zero

Empty == [text |-> <<>>, maxsz |-> 0, memory |-> 0]

Wrote(buf, er) == [buf |-> buf, er |-> er]

\* mem: whether the allocator has memory.  The new size is noted first.
kcgi_buf_write(buf, s, mem) ==
  LET need == Len(buf.text) + Len(s) + 1
      grown == [buf EXCEPT !.maxsz = need + GrowSize]
  IN IF s = <<>> THEN Wrote(buf, "KCGI_OK")
     ELSE IF need <= buf.maxsz THEN Wrote([buf EXCEPT !.text = @ \o s], "KCGI_OK")
     ELSE IF ~mem THEN Wrote(grown, "KCGI_ENOMEM")
     ELSE Wrote([grown EXCEPT !.text = @ \o s, !.memory = need + GrowSize], "KCGI_OK")

kcgi_buf_putc(buf, c, mem) == kcgi_buf_write(buf, <<c>>, mem)
kcgi_buf_puts(buf, s, mem) == kcgi_buf_write(buf, s, mem)

\* The formatted text is a copy of its own first (kxvasprintf).
kcgi_buf_printf(buf, s, printed, mem) ==
  IF printed THEN kcgi_buf_write(buf, s, mem) ELSE Wrote(buf, "KCGI_ENOMEM")

=============================================================================
