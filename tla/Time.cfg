SPECIFICATION Spec
CONSTANTS
    t1 = t1
    t2 = t2
    NoInstant = NoInstant
    NoMessage = NoMessage
    Thread = {t1, t2}
    Zones <- MCZones
    Instants <- MCInstants
    Texts <- MCTexts
INVARIANT TypeOK
PROPERTIES
    ReadsBack
    NeverFarOff
    ReadIsCalendar
