------------------------ MODULE MCFormatDiagnostics ------------------------
(* Texts of up to MaxLines lines; leading whitespace of widths 0, 1, 2 and *)
(* a tab, contents that are empty, plain, a header, or open or close a     *)
(* fenced string.                                                          *)
EXTENDS FormatDiagnostics

MaxLines == 4

MCWs == {<<>>, <<" ">>, <<" ", " ">>, <<"\t">>}

MCContents == {<<>>, <<"x">>, <<"h">>, <<"[", "[">>, <<"]", "]">>, <<"[", "[", "]", "]">>}

MCLines == [ws : MCWs, content : MCContents]

MCInputs ==
    {t \in [lines : UNION {[1..n -> MCLines] : n \in 0..MaxLines}, nl : BOOLEAN] :
        IsText(t)}

=============================================================================
