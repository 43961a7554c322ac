------------------------------- MODULE MCStdio -------------------------------
(* A file of two bytes that grows to three, and buffers of two: the buffer *)
(* begins, ends and is refilled at every position of the file.             *)
EXTENDS Stdio

MCContents == {<<1, 2>>}
MCItems == {<<1, 1>>, <<2, 1>>, <<3, 1>>}
MCPractice == {{}, {"line_update", "write_first", "bad_seek", "rewind_fails", "line_ff"},
               {"unget_unread", "flush_all"}}
==============================================================================
