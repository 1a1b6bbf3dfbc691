--------------------------- MODULE MCCalculatorRelay ---------------------------
EXTENDS CalculatorRelay, TLC

MCOneChat == {Id(1)}
MCChatSlotAndNew == {Id(1), Slot(1), New}
MCSymmetry == Permutations(Sessions)
=============================================================================
