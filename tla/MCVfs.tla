------------------------------- MODULE MCVfs -------------------------------
EXTENDS Vfs

MCMounts == {<<"R0">>, <<"R1">>}
MCDirs   == {<<"R0", "a">>, <<"R0", "b.c">>, <<"R0", "a", "b.c">>}
MCLinks  == {<<"x">>, <<"R0", "y">>}
MCText   == <<"t">>
MCTexts  == {<<"t">>, <<"u", "v", "w">>}
=============================================================================
