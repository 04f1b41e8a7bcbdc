--------------------------- MODULE MC_FcgiSession ---------------------------
(***************************************************************************)
(* Clients for FcgiSession.                                                *)
(***************************************************************************)
EXTENDS FcgiSession

Opening == <<"bgn", "bgnb", "prm", "prmb">>

\* A request with a body, one without, one with a padded last record.
Whole == {Opening \o <<"prm", "prmb", "in", "inb", "end">>,
          <<"bgn", "bgnb", "end">>,
          Opening \o <<"endp", "pad">>}

\* The client closes the connection before a record, or in the body of a
\* record with parameters.
Closed == {<<>>, <<"bgn", "bgnb">>, SubSeq(Opening, 1, 3), Opening,
           Opening \o <<"in", "inb">>}

\* Not a request, and something after the request.
Malformed == {<<"bad">>, Opening \o <<"end", "bad">>,
              <<"bgn", "bgnb", "prm", "prmb", "bad">>}

\* The client closes it in the body of another record.
ClosedInside == {<<"bgn">>, Opening \o <<"in">>}

\* The client closes it in the padding of the last record.
ClosedInPadding == {Opening \o <<"endp">>}

Orderly == Whole \cup Closed
Clients == Orderly \cup Malformed \cup ClosedInside
Wedging == Whole \cup ClosedInPadding

=============================================================================
