---------------------------- MODULE MCSpinLock ----------------------------
EXTENDS SpinLock

Nothing == {}
Sleep == {<<"sleep", "sheap">>}
SleepAndHeap == {<<"sleep", "sheap">>, <<"gheap">>}
Wakeup == {<<"sleep">>, <<"sleep", "sheap">>}
HeapOnly == {<<"gheap">>, <<"stack">>}
===========================================================================
