CONSTANTS
    Consoles = {"keyboard"}
    Keyboard = "keyboard"
    Capture = "capture"
    BitsValues = {8, 16, 32}
    RateValues = {16000, 32000, 100000}
    EdgeValues = {0}
SPECIFICATION Spec
INVARIANTS TypeOK RepairIsInvisible OnePassRepairs OutcomeHolds ShownStaysInEffect
